---------------------------- MODULE Spec2Model ----------------------------
(***************************************************************************)
(* Storage monitor (src/runai/storage_monitor): the per-namespace storage  *)
(* analysis, the dashboard aggregator, the dashboard routes with their     *)
(* 30-second cache, and the live-update websocket loop.                    *)
(*                                                                         *)
(* Conventions.  Python's None and Optional[T] are modelled by sequences:  *)
(* None is <<>> and a present value v is <<v>>, so that an empty list, an  *)
(* empty string and None stay three different values.  A Python str is a   *)
(* TLA+ string where it is only compared, and a sequence of one-character  *)
(* strings where the code looks inside it (capacity strings).  A float     *)
(* holding a GiB amount is the exact pair [gi, frac]: gi whole GiB and     *)
(* frac bytes (0 .. 2^30 - 1); the scalings of parse_capacity_to_gi are    *)
(* by powers of two and are exact in IEEE doubles over the model's range.  *)
(* Tenant namespaces are the numbers 1 .. MaxNs, namespace n standing for  *)
(* the name "runai-n": numeric order is the alphabetical order of sorted().*)
(***************************************************************************)
EXTENDS Integers, Sequences, FiniteSets, TLC

\* ------------------------------------------------------------------ bounds
\* Number of namespaces the modelled cluster can hold.
MaxNs == 3
\* Largest batch_size a caller passes to get_namespace_summaries_async.
MaxBatch == 2
\* Largest limit a caller passes to a graph request.
MaxLimit == 2
\* Number of requests the two cached routes receive in one run.
MaxReq == 2
\* The clock advances TickStep seconds at a time, up to MaxTime.
TickStep == 15
MaxTime == 30
\* Number of websocket subscribers that connect in one run.
MaxSubs == 2
\* Number of claims and of quota objects in a generated namespace.
MaxClaims == 2
MaxQuotas == 2
\* Number of calls of the analyzer's and the services' methods in one run.
MaxCalls == 2
\* Length of the capacity strings parse_capacity_to_gi is tried on.
MaxCapLen == 3
\* Number of tenant namespaces of the fleet whose digests are fetched.
MaxFleet == 11

\* ---------------------------------------------------------------- optional
None == <<>>
Some(v) == <<v>>
IsNone(o) == o = <<>>
Get(o) == o[1]

\* --------------------------------------------------------------- capacity
\* 1024 ** 3, the bytes of one GiB
BytesPerGi == 1073741824
\* 1024 * 1024
KiPerGi == 1048576
\* 1024
MiPerGi == 1024

Digits == {"0", "1", "2", "3", "4", "5", "6", "7", "8", "9"}
DigitVal(c) == CASE c = "0" -> 0 [] c = "1" -> 1 [] c = "2" -> 2 [] c = "3" -> 3
                 [] c = "4" -> 4 [] c = "5" -> 5 [] c = "6" -> 6 [] c = "7" -> 7
                 [] c = "8" -> 8 [] c = "9" -> 9

Unknown == <<"U", "n", "k", "n", "o", "w", "n">>

ZeroGi == [gi |-> 0, frac |-> 0]
AddGi(a, b) == LET f == a.frac + b.frac
               IN [gi |-> a.gi + b.gi + (f \div BytesPerGi), frac |-> f % BytesPerGi]
\* a < b on GiB amounts
GiLess(a, b) == a.gi < b.gi \/ (a.gi = b.gi /\ a.frac < b.frac)
\* a - b for b <= a
SubGi(a, b) == IF a.frac >= b.frac THEN [gi |-> a.gi - b.gi, frac |-> a.frac - b.frac]
               ELSE [gi |-> a.gi - b.gi - 1, frac |-> a.frac + BytesPerGi - b.frac]

\* str.strip(): leading and trailing blanks removed
RECURSIVE LStrip(_)
LStrip(s) == IF s # <<>> /\ Head(s) = " " THEN LStrip(Tail(s)) ELSE s
RECURSIVE RStrip(_)
RStrip(s) == IF s # <<>> /\ s[Len(s)] = " " THEN RStrip(SubSeq(s, 1, Len(s) - 1)) ELSE s
Strip(s) == RStrip(LStrip(s))

EndsWith(s, a, b) == Len(s) >= 2 /\ s[Len(s) - 1] = a /\ s[Len(s)] = b

\* float(s) over the model's alphabet (digits, letters, blanks): defined exactly
\* on the non-empty digit strings (surrounding blanks allowed), ValueError otherwise
IsFloat(s) == LET t == Strip(s) IN t # <<>> /\ \A k \in 1..Len(t) : t[k] \in Digits
RECURSIVE DigitsValue(_)
DigitsValue(t) == IF t = <<>> THEN 0
                  ELSE 10 * DigitsValue(SubSeq(t, 1, Len(t) - 1)) + DigitVal(t[Len(t)])
FloatOf(s) == DigitsValue(Strip(s))

\* What a call does: it returns a value or raises an exception.
Returned(v) == [raises |-> FALSE, value |-> v]
\* type is the exception's class, error its str()
Raised(type, msg) == [raises |-> TRUE, type |-> type, error |-> msg]

\* PVCService.parse_capacity_to_gi; what it raises is float()'s ValueError
parse_capacity_to_gi(capacity) ==
    IF capacity = <<>> \/ capacity = Unknown THEN Returned(ZeroGi)
    ELSE LET c == Strip(capacity)
             num == SubSeq(c, 1, Len(c) - 2)
         IN IF EndsWith(c, "T", "i") THEN
                IF IsFloat(num) THEN Returned([gi |-> FloatOf(num) * MiPerGi, frac |-> 0])
                ELSE Raised("ValueError", "could not convert string to float")
            ELSE IF EndsWith(c, "G", "i") THEN
                IF IsFloat(num) THEN Returned([gi |-> FloatOf(num), frac |-> 0])
                ELSE Raised("ValueError", "could not convert string to float")
            ELSE IF EndsWith(c, "M", "i") THEN
                IF IsFloat(num)
                THEN Returned([gi |-> FloatOf(num) \div MiPerGi,
                               frac |-> (FloatOf(num) % MiPerGi) * KiPerGi])
                ELSE Raised("ValueError", "could not convert string to float")
            ELSE IF EndsWith(c, "K", "i") THEN
                IF IsFloat(num)
                THEN Returned([gi |-> FloatOf(num) \div KiPerGi,
                               frac |-> (FloatOf(num) % KiPerGi) * MiPerGi])
                ELSE Raised("ValueError", "could not convert string to float")
            ELSE IF IsFloat(c)
                 THEN Returned([gi |-> FloatOf(c) \div BytesPerGi,
                                frac |-> FloatOf(c) % BytesPerGi])
                 ELSE Raised("ValueError", "could not convert string to float")

\* ------------------------------------------------------------ Python dicts
\* A dict is a function on its keys; d1.update(d2) is last-write-wins per key.
EmptyDict == <<>>
\* an update that keeps the value a key already has
DictUpdate_FirstWins(a, b) ==
    [k \in (DOMAIN a) \cup (DOMAIN b) |-> IF k \in DOMAIN a THEN a[k] ELSE b[k]]
DictUpdate(a, b) == [k \in (DOMAIN a) \cup (DOMAIN b) |-> IF k \in DOMAIN b THEN b[k] ELSE a[k]]
\* d.get(k): Optional
DictGet(d, k) == IF k \in DOMAIN d THEN Some(d[k]) ELSE None

\* ------------------------------------------------------- the cluster (k8s)
\* What the Kubernetes API holds for one namespace: the raw records of
\* K8sClient.list_pvcs, list_pods and list_resource_quotas, and the set of those
\* calls that fail (ApiException, re-raised as RuntimeError).
\*   pvc dict:   [name, status, capacity: Optional chars, storage_class: Optional str,
\*                created: Optional seconds from creation_timestamp to time 0]
\*   clock:      what datetime.now() reads during the call, in seconds
\*   pod dict:   [name, pvc_claims: list of claim names]
\*   quota dict: [name, hard_limits: dict, used: dict]
\*   storage class dict: [name, provisioner] (cluster-wide, as every analysis
\*                of the namespace reads it)

\* PVCService.list_pvcs: one PVC per record; capacity `or "Unknown"`, age in days
\* the seconds of a day: timedelta.days counts whole days
SecondsPerDay == 86400

\* an age counted in seconds
AgeDays_Seconds(created, clock) == created + clock

\* `age_days = (datetime.now(timezone.utc) - created).days`
AgeDays(created, clock) == (created + clock) \div SecondsPerDay

ToPVC(d, clock) ==
    [name          |-> d.name,
     status        |-> d.status,
     capacity      |-> IF IsNone(d.capacity) \/ Get(d.capacity) = <<>>
                       THEN Unknown ELSE Get(d.capacity),
     storage_class |-> d.storage_class,
     age_days      |-> IF IsNone(d.created) THEN None
                       ELSE Some(AgeDays(Get(d.created), clock))]

list_pvcs(k8s) ==
    IF "pvcs" \in k8s.fails THEN Raised("RuntimeError", "Failed to list PVCs")
    ELSE Returned([n \in 1..Len(k8s.pvcs) |-> ToPVC(k8s.pvcs[n], k8s.clock)])

\* the pvc_to_pods index of get_pvcs_with_pods, read at one claim name: the pods
\* whose pvc_claims hold the name, in listing order, once per occurrence
RECURSIVE Occurrences(_, _)
Occurrences(claims, name) ==
    IF claims = <<>> THEN 0
    ELSE (IF Head(claims) = name THEN 1 ELSE 0) + Occurrences(Tail(claims), name)

RECURSIVE PodsOf(_, _)
PodsOf(pod_dicts, name) ==
    IF pod_dicts = <<>> THEN <<>>
    ELSE [n \in 1..Occurrences(Head(pod_dicts).pvc_claims, name) |-> Head(pod_dicts)]
         \o PodsOf(Tail(pod_dicts), name)

\* PVCService.get_pvcs_with_pods
\* an enrichment that takes only bound claims for unused
PVCWithPods_BoundOnly(pvc, pods) ==
    [pvc |-> pvc, pods |-> pods, is_unused |-> (Len(pods) = 0 /\ pvc.status = "Bound")]

\* PVCWithPods(pvc=pvc, pods=pods, is_unused=len(pods) == 0)
PVCWithPods(pvc, pods) == [pvc |-> pvc, pods |-> pods, is_unused |-> (Len(pods) = 0)]

\* get_pvcs_with_pods after `pvcs = self.list_pvcs(namespace)` has answered
PVCsWithPods(k8s, pvcs) ==
    IF pvcs.raises THEN pvcs
    ELSE IF "pods" \in k8s.fails THEN Raised("RuntimeError", "Failed to list pods")
    ELSE Returned([n \in 1..Len(pvcs.value) |->
             PVCWithPods(pvcs.value[n], PodsOf(k8s.pods, pvcs.value[n].name))])

get_pvcs_with_pods(k8s) == PVCsWithPods(k8s, list_pvcs(k8s))

\* int(value) of QuotaService._parse_int over the model's alphabet: None when
\* the value is absent or is not a digit string
parse_int(value) ==
    IF IsNone(value) THEN None
    ELSE IF IsFloat(Get(value)) THEN Some(FloatOf(Get(value))) ELSE None

RECURSIVE MergeKey(_, _)
MergeKey(quota_dicts, field) ==
    IF quota_dicts = <<>> THEN EmptyDict
    ELSE DictUpdate(MergeKey(SubSeq(quota_dicts, 1, Len(quota_dicts) - 1), field),
                    quota_dicts[Len(quota_dicts)][field])

\* QuotaService.get_storage_quota: Optional ResourceQuota, or raises
\* the ResourceQuota built from the merged dicts
ResourceQuotaOf(name, combined_hard, combined_used) ==
    [name              |-> name,
     hard_limits       |-> combined_hard,
     used              |-> combined_used,
     has_storage_quota |-> \E key \in {"requests.storage", "persistentvolumeclaims"} :
                               key \in DOMAIN combined_hard,
     storage_limit     |-> DictGet(combined_hard, "requests.storage"),
     storage_used      |-> DictGet(combined_used, "requests.storage"),
     pvc_count_limit   |-> parse_int(DictGet(combined_hard, "persistentvolumeclaims")),
     pvc_count_used    |-> parse_int(DictGet(combined_used, "persistentvolumeclaims"))]

get_storage_quota(k8s) ==
    IF "quotas" \in k8s.fails THEN Raised("RuntimeError", "Failed to list resource quotas")
    ELSE IF k8s.quotas = <<>> THEN Returned(None)
    ELSE Returned(Some(ResourceQuotaOf(k8s.quotas[1].name,
                                       MergeKey(k8s.quotas, "hard_limits"),
                                       MergeKey(k8s.quotas, "used"))))

\* ------------------------------------------------------- storage analyzer
\* a tally of the bound claims that counts only the mounted ones
IsBound_Mounted(pvc_wp) == pvc_wp.pvc.status = "Bound" /\ ~pvc_wp.is_unused
IsBound(pvc_wp) == pvc_wp.pvc.status = "Bound"
IsPending(pvc_wp) == pvc_wp.pvc.status = "Pending"
IsUnused(pvc_wp) == pvc_wp.is_unused

\* the capacity loop of _calculate_summary: the first float() that fails raises
\* one iteration: `capacity_gi = parse_capacity_to_gi(...)`, then the `+=`
\* when the claim is counted
AddCapacity(sum, capacity_gi, counted) ==
    IF sum.raises THEN sum
    ELSE IF capacity_gi.raises THEN capacity_gi
    ELSE IF ~counted THEN sum
    ELSE Returned(AddGi(sum.value, capacity_gi.value))

RECURSIVE SumCapacity(_, _)
SumCapacity(pvcs_with_pods, unused_only) ==
    IF pvcs_with_pods = <<>> THEN Returned(ZeroGi)
    ELSE AddCapacity(
           SumCapacity(SubSeq(pvcs_with_pods, 1, Len(pvcs_with_pods) - 1), unused_only),
           parse_capacity_to_gi(pvcs_with_pods[Len(pvcs_with_pods)].pvc.capacity),
           ~unused_only \/ pvcs_with_pods[Len(pvcs_with_pods)].is_unused)

StorageClassOf(pvc_wp) ==
    IF IsNone(pvc_wp.pvc.storage_class) \/ Get(pvc_wp.pvc.storage_class) = ""
    THEN "default" ELSE Get(pvc_wp.pvc.storage_class)

\* a tally that leaves out the claims without a storage class
storage_class_counts_SetOnly(pvcs_with_pods) ==
    [sc \in {StorageClassOf(pvcs_with_pods[n]) : n \in 1..Len(pvcs_with_pods)} \ {"default"} |->
        Cardinality({n \in 1..Len(pvcs_with_pods) : StorageClassOf(pvcs_with_pods[n]) = sc})]

storage_class_counts(pvcs_with_pods) ==
    [sc \in {StorageClassOf(pvcs_with_pods[n]) : n \in 1..Len(pvcs_with_pods)} |->
        Cardinality({n \in 1..Len(pvcs_with_pods) : StorageClassOf(pvcs_with_pods[n]) = sc})]

\* StorageAnalyzer._calculate_summary
\* the StorageSummary(...) of _calculate_summary's return statement, given the
\* two capacity sums of its loop
StorageSummaryOf(namespace, pvcs_with_pods, quota, total, unused) ==
    IF total.raises THEN total
    ELSE Returned(
      [namespace          |-> namespace,
       total_pvcs         |-> Len(pvcs_with_pods),
       bound_pvcs         |-> Len(SelectSeq(pvcs_with_pods, IsBound)),
       pending_pvcs       |-> Len(SelectSeq(pvcs_with_pods, IsPending)),
       unused_pvcs        |-> Len(SelectSeq(pvcs_with_pods, IsUnused)),
       total_capacity_gi  |-> total.value,
       unused_capacity_gi |-> unused.value,
       storage_classes    |-> storage_class_counts(pvcs_with_pods),
       has_quota          |-> ~IsNone(quota),
       quota              |-> quota])

calculate_summary(namespace, pvcs_with_pods, quota) ==
    StorageSummaryOf(namespace, pvcs_with_pods, quota,
                     SumCapacity(pvcs_with_pods, FALSE), SumCapacity(pvcs_with_pods, TRUE))

\* K8sClient.list_storage_classes: the records, or the ApiException re-raised
list_storage_classes(k8s) ==
    IF "storage_classes" \in k8s.fails
    THEN Raised("RuntimeError", "Failed to list storage classes")
    ELSE Returned(k8s.storage_classes)

\* StorageClass(name=sc["name"], provisioner=sc["provisioner"], ...)
ToStorageClass(sc) ==
    [name |-> sc.name, provisioner |-> sc.provisioner, allow_volume_expansion |-> FALSE]

\* a listing whose failure reaches the caller
StorageClassesOf_Strict(sc_dicts) ==
    IF sc_dicts.raises THEN sc_dicts
    ELSE Returned([n \in 1..Len(sc_dicts.value) |-> ToStorageClass(sc_dicts.value[n])])

\* the try block of _get_storage_classes: `except Exception: return []`
StorageClassesOf(sc_dicts) ==
    IF sc_dicts.raises THEN Returned(<<>>)
    ELSE Returned([n \in 1..Len(sc_dicts.value) |-> ToStorageClass(sc_dicts.value[n])])

\* StorageAnalyzer._get_storage_classes
get_storage_classes(k8s) == StorageClassesOf(list_storage_classes(k8s))

\* ------------------------------------------------- recommendation engine
\* RecommendationEngine._parse_capacity: the GiB of a capacity string, None when
\* the string is empty or the parser raises (the model has no negative numbers)
\* a parse that answers 0.0 where the parser raises
parse_capacity_ZeroOnError(capacity) ==
    IF capacity = <<>> THEN None
    ELSE IF parse_capacity_to_gi(capacity).raises THEN Some(ZeroGi)
    ELSE Some(parse_capacity_to_gi(capacity).value)

parse_capacity(capacity) ==
    IF capacity = <<>> THEN None
    ELSE IF parse_capacity_to_gi(capacity).raises THEN None
    ELSE Some(parse_capacity_to_gi(capacity).value)

DigitChar(d) == CASE d = 0 -> "0" [] d = 1 -> "1" [] d = 2 -> "2" [] d = 3 -> "3"
                  [] d = 4 -> "4" [] d = 5 -> "5" [] d = 6 -> "6" [] d = 7 -> "7"
                  [] d = 8 -> "8" [] d = 9 -> "9"

RECURSIVE ToDigits(_)
ToDigits(n) == IF n < 10 THEN <<DigitChar(n)>>
               ELSE Append(ToDigits(n \div 10), DigitChar(n % 10))

\* frac * 100 / 2^30 rounded to the nearest integer, ties to even, computed in
\* two halves of the product (q and r are its parts above and below 2^20 * 1024)
RoundHundredths(q, r) ==
    IF 2 * r > BytesPerGi \/ (2 * r = BytesPerGi /\ q % 2 = 1) THEN q + 1 ELSE q

\* frac * 100 above and below 2^20
ScaledHigh(frac) == (frac \div KiPerGi) * 100 + (((frac % KiPerGi) * 100) \div KiPerGi)
ScaledLow(frac) == ((frac % KiPerGi) * 100) % KiPerGi

HundredthsOf(frac) ==
    RoundHundredths(ScaledHigh(frac) \div MiPerGi,
                    ((ScaledHigh(frac) % MiPerGi) * KiPerGi) + ScaledLow(frac))

\* the digits of h hundredths, "d.dd"
FormatHundredths(h) ==
    ToDigits(h \div 100) \o <<".", DigitChar((h % 100) \div 10), DigitChar(h % 10)>>

\* f"{x:.2f}" of a GiB amount
Format2f(x) == FormatHundredths(x.gi * 100 + HundredthsOf(x.frac))

\* Recommendation(...): title and description hold the value their f-string
\* interpolates; actionable is always True
Recommendation(type, severity, title, description, pvc_name, capacity, capacity_gi, age_days) ==
    [type        |-> type,
     severity    |-> severity,
     title       |-> title,
     description |-> description,
     pvc_name    |-> pvc_name,
     capacity    |-> capacity,
     capacity_gi |-> capacity_gi,
     age_days    |-> age_days,
     actionable  |-> TRUE]

\* the unused_pvc warning of one unused claim
UnusedRec(pvc_wp) ==
    Recommendation("unused_pvc", "warning", Some(pvc_wp.pvc.name), Some(pvc_wp.pvc.capacity),
                   Some(pvc_wp.pvc.name), Some(pvc_wp.pvc.capacity),
                   parse_capacity(pvc_wp.pvc.capacity), pvc_wp.pvc.age_days)

UnusedRecs(unused_pvcs) == [n \in 1..Len(unused_pvcs) |-> UnusedRec(unused_pvcs[n])]

\* `if summary.unused_capacity_gi > 0`, inside `if unused_pvcs`
RollupRecs(unused_pvcs, summary) ==
    IF unused_pvcs # <<>> /\ GiLess(ZeroGi, summary.unused_capacity_gi)
    THEN << Recommendation("unused_storage_summary", "info",
                           Some(Format2f(summary.unused_capacity_gi)), Some(Len(unused_pvcs)),
                           None, Some(Format2f(summary.unused_capacity_gi) \o <<"G", "i">>),
                           Some(summary.unused_capacity_gi), None) >>
    ELSE <<>>

\* `if summary.pending_pvcs > 0`
PendingRecs(summary) ==
    IF summary.pending_pvcs > 0
    THEN << Recommendation("pending_pvc", "error", Some(summary.pending_pvcs), None,
                           None, None, None, None) >>
    ELSE <<>>

\* `pvc_wp.pvc.age_days and pvc_wp.pvc.age_days > 30`
IsOldUnused(pvc_wp) ==
    /\ ~IsNone(pvc_wp.pvc.age_days)
    /\ Get(pvc_wp.pvc.age_days) # 0
    /\ Get(pvc_wp.pvc.age_days) > 30

OldRecs(old_unused) ==
    IF old_unused # <<>>
    THEN << Recommendation("old_unused_pvc", "warning", Some(Len(old_unused)), None,
                           None, None, None, None) >>
    ELSE <<>>

\* an engine that reports the pending claims before the rollup
RecommendationsOf_PendingFirst(unused_pvcs, summary) ==
    UnusedRecs(unused_pvcs) \o PendingRecs(summary) \o RollupRecs(unused_pvcs, summary)
        \o OldRecs(SelectSeq(unused_pvcs, IsOldUnused))

\* the appends of generate_recommendations, in their order
RecommendationsOf(unused_pvcs, summary) ==
    UnusedRecs(unused_pvcs) \o RollupRecs(unused_pvcs, summary) \o PendingRecs(summary)
        \o OldRecs(SelectSeq(unused_pvcs, IsOldUnused))

\* RecommendationEngine.generate_recommendations (quota is not read)
generate_recommendations(pvcs_with_pods, summary, quota) ==
    RecommendationsOf(SelectSeq(pvcs_with_pods, IsUnused), summary)

\* StorageAnalyzer.analyze_namespace: the analysis, or the exception it raises
\* the StorageAnalysis(...) of analyze_namespace's return statement
NamespaceAnalysisOf(namespace, pvcs_with_pods, summary, storage_classes, recommendations) ==
    [namespace       |-> namespace,
     summary         |-> summary,
     pvcs            |-> pvcs_with_pods,
     storage_classes |-> storage_classes,
     recommendations |-> recommendations]

\* analyze_namespace after _calculate_summary and _get_storage_classes
AnalyzeSummarized(namespace, pvcs_with_pods, quota, summary, storage_classes) ==
    IF summary.raises THEN summary
    ELSE IF storage_classes.raises THEN storage_classes
    ELSE Returned(NamespaceAnalysisOf(namespace, pvcs_with_pods, summary.value,
                     storage_classes.value,
                     generate_recommendations(pvcs_with_pods, summary.value, quota)))

\* analyze_namespace after its two service calls have answered
AnalyzeListed(namespace, pvcs_with_pods, quota, storage_classes) ==
    IF pvcs_with_pods.raises THEN pvcs_with_pods
    ELSE IF quota.raises THEN quota
    ELSE AnalyzeSummarized(namespace, pvcs_with_pods.value, quota.value,
             calculate_summary(namespace, pvcs_with_pods.value, quota.value),
             storage_classes)

analyze_namespace(namespace, k8s) ==
    AnalyzeListed(namespace, get_pvcs_with_pods(k8s), get_storage_quota(k8s),
                  get_storage_classes(k8s))

\* ------------------------------------------------- cluster states (inputs)
\* the storage classes of the cluster, as list_storage_classes answers them
ClusterStorageClasses ==
    << [name |-> "fast", provisioner |-> "csi"], [name |-> "slow", provisioner |-> "nfs"] >>

\* the three claims of namespace "tenant-a": A is mounted by one workload,
\* B is mounted by none and is 45 days old, C is pending
TenantA ==
    [fails  |-> {},
     pvcs   |-> << [name |-> "A", status |-> "Bound", capacity |-> Some(<<"1", "0", "G", "i">>),
                    storage_class |-> Some("fast"), created |-> Some(3 * SecondsPerDay)],
                   [name |-> "B", status |-> "Bound", capacity |-> Some(<<"5", "G", "i">>),
                    storage_class |-> None, created |-> Some(45 * SecondsPerDay)],
                   [name |-> "C", status |-> "Pending", capacity |-> Some(<<"2", "G", "i">>),
                    storage_class |-> Some("fast"), created |-> None] >>,
     pods   |-> << [name |-> "trainer", pvc_claims |-> <<"A">>] >>,
     quotas |-> <<>>,
     storage_classes |-> ClusterStorageClasses, clock |-> 0]

\* "tenant-a" with its pending claim C mounted by a workload that waits for it
TenantAMounted ==
    [TenantA EXCEPT !.pods = << [name |-> "trainer", pvc_claims |-> <<"A">>],
                                [name |-> "waiting", pvc_claims |-> <<"C">>] >>]

\* one unused half-GiB claim under a storage quota
WithQuota ==
    [fails  |-> {},
     pvcs   |-> << [name |-> "D", status |-> "Bound", capacity |-> Some(<<"5", "1", "2", "M", "i">>),
                    storage_class |-> Some("slow"), created |-> Some(8 * SecondsPerDay)] >>,
     pods   |-> <<>>,
     quotas |-> << [name |-> "q", hard_limits |-> [persistentvolumeclaims |-> <<"4">>],
                    used |-> [persistentvolumeclaims |-> <<"1">>]] >>,
     storage_classes |-> ClusterStorageClasses, clock |-> 0]

\* the claim listing is refused (ApiException)
Unreadable ==
    [fails |-> {"pvcs"}, pvcs |-> <<>>, pods |-> <<>>, quotas |-> <<>>,
     storage_classes |-> ClusterStorageClasses, clock |-> 0]

\* a namespace the API knows nothing in: every listing is empty
EmptyNamespace ==
    [fails |-> {}, pvcs |-> <<>>, pods |-> <<>>, quotas |-> <<>>,
     storage_classes |-> ClusterStorageClasses, clock |-> 0]

\* a namespace of claims no workload mounts, one at each edge of the age
\* buckets and one without a creation instant, next to a mounted old claim
AgedClaim(name, days) ==
    [name |-> name, status |-> "Bound", capacity |-> Some(<<"1", "G", "i">>),
     storage_class |-> Some("slow"), created |-> Some(days * SecondsPerDay)]

Aged ==
    [fails  |-> {},
     pvcs   |-> << AgedClaim("d7", 7), AgedClaim("d8", 8), AgedClaim("d30", 30),
                   AgedClaim("d31", 31), AgedClaim("d90", 90), AgedClaim("d91", 91),
                   AgedClaim("d180", 180), AgedClaim("d181", 181),
                   [AgedClaim("new", 0) EXCEPT !.created = None],
                   AgedClaim("kept", 200) >>,
     pods   |-> << [name |-> "archiver", pvc_claims |-> <<"kept">>] >>,
     quotas |-> <<>>,
     storage_classes |-> ClusterStorageClasses, clock |-> 0]

\* "tenant-a" with a fourth claim whose volume is lost, under a quota object
\* that constrains no storage
Retired ==
    [TenantA EXCEPT
       !.pvcs = Append(@, [name |-> "L", status |-> "Lost",
                           capacity |-> Some(<<"1", "G", "i">>),
                           storage_class |-> None, created |-> Some(100 * SecondsPerDay)]),
       !.quotas = << [name |-> "q3", hard_limits |-> [cpu |-> <<"8">>],
                      used |-> [cpu |-> <<"2">>]] >>]

NsProfiles == {TenantA, WithQuota, Unreadable}

\* a cluster: the tenant namespaces 1 .. n with what the API holds for each, and
\* whether K8sClient.list_namespaces fails
Clusters == UNION {[list_fails : BOOLEAN, ns : [1..n -> NsProfiles]] : n \in 0..MaxNs}

K8sOf(c, namespace) == IF namespace \in DOMAIN c.ns THEN c.ns[namespace] ELSE EmptyNamespace

\* NamespaceService.list_runai_namespaces: the "runai-" namespaces, sorted
list_runai_namespaces(c) ==
    IF c.list_fails THEN Raised("RuntimeError", "Failed to list namespaces")
    ELSE Returned([n \in 1..Len(c.ns) |-> n])

\* ---------------------------------------------------- dashboard aggregator
\* a digest built without has_quota, which stays at its default
NamespaceSummaryOf_NoQuota(namespace, summary) ==
    [namespace          |-> namespace,
     total_pvcs         |-> summary.total_pvcs,
     unused_pvcs        |-> summary.unused_pvcs,
     bound_pvcs         |-> summary.bound_pvcs,
     pending_pvcs       |-> summary.pending_pvcs,
     total_capacity_gi  |-> summary.total_capacity_gi,
     unused_capacity_gi |-> summary.unused_capacity_gi,
     has_quota          |-> FALSE,
     error              |-> None]

\* NamespaceSummary (dashboard_models): the digest of one namespace
NamespaceSummaryOf(namespace, summary) ==
    [namespace          |-> namespace,
     total_pvcs         |-> summary.total_pvcs,
     unused_pvcs        |-> summary.unused_pvcs,
     bound_pvcs         |-> summary.bound_pvcs,
     pending_pvcs       |-> summary.pending_pvcs,
     total_capacity_gi  |-> summary.total_capacity_gi,
     unused_capacity_gi |-> summary.unused_capacity_gi,
     has_quota          |-> summary.has_quota,
     error              |-> None]

\* NamespaceSummary(namespace=..., error=...): every metric at its default
ErrorSummary(namespace, error) ==
    [namespace          |-> namespace,
     total_pvcs         |-> 0,
     unused_pvcs        |-> 0,
     bound_pvcs         |-> 0,
     pending_pvcs       |-> 0,
     total_capacity_gi  |-> ZeroGi,
     unused_capacity_gi |-> ZeroGi,
     has_quota          |-> FALSE,
     error              |-> Some(error)]

\* DashboardAggregator._fetch_summary: never raises, an exception of the
\* analysis becomes the digest's error
\* the try/except of _fetch_summary around the analysis
DigestOf(namespace, analysis) ==
    IF analysis.raises THEN Returned(ErrorSummary(namespace, analysis.error))
    ELSE Returned(NamespaceSummaryOf(namespace, analysis.value.summary))

fetch_summary(namespace, c) ==
    DigestOf(namespace, analyze_namespace(namespace, K8sOf(c, namespace)))

\* gather() without failure isolation: one failed namespace marks its siblings
GatherDigests_Poisoned(batch, results) ==
    [j \in 1..Len(batch) |->
        IF \E m \in 1..Len(batch) : results[m].raises \/ results[m].value.error # None
        THEN ErrorSummary(batch[j], "Fetch timeout or error")
        ELSE results[j].value]

\* the digests gather() hands back for one batch, in batch order; a result that
\* is an exception becomes the generic error digest
GatherDigests(batch, results) ==
    [j \in 1..Len(batch) |->
        IF results[j].raises THEN ErrorSummary(batch[j], "Fetch timeout or error")
        ELSE results[j].value]

\* a timeout handler that keeps what completed before the timeout fired
TimeoutDigests_Salvage(batch, results) ==
    [j \in 1..Len(batch) |->
        IF IsNone(results[j]) THEN ErrorSummary(batch[j], "Request timeout")
        ELSE Get(results[j]).value]

\* the digests of a batch whose wait_for timed out; results holds what each
\* task had returned by then (None: nothing yet), and is dropped
TimeoutDigests(batch, results) ==
    [j \in 1..Len(batch) |-> ErrorSummary(batch[j], "Request timeout")]

\* a slice that hands the batch over back to front
Slice_Reversed(list, i, size) ==
    [j \in 1..((IF i + size < Len(list) THEN i + size ELSE Len(list)) - i) |->
        list[(IF i + size < Len(list) THEN i + size ELSE Len(list)) + 1 - j]]

\* namespaces[i:i + batch_size] (i counts from 0) and the positions it covers
Slice(list, i, size) == SubSeq(list, i + 1, IF i + size < Len(list) THEN i + size ELSE Len(list))
\* positions that reach into the batch after
Positions_Overlapping(list, i, size) == {k \in 1..Len(list) : i < k /\ k <= i + size + 1}
Positions(list, i, size) == {k \in 1..Len(list) : i < k /\ k <= i + size}

\* ------------------------------------------------------- cluster overview
ZeroTotals ==
    [total_pvcs |-> 0, total_capacity_gi |-> ZeroGi, unused_capacity_gi |-> ZeroGi,
     total_unused_pvcs |-> 0, namespaces_with_quota |-> 0]

\* a loop body that counts a quota for every analyzed namespace
OverviewAdd_NoQuotaCheck(acc, analysis) ==
    IF analysis.raises THEN acc
    ELSE [total_pvcs            |-> acc.total_pvcs + analysis.value.summary.total_pvcs,
          total_capacity_gi     |-> AddGi(acc.total_capacity_gi,
                                          analysis.value.summary.total_capacity_gi),
          unused_capacity_gi    |-> AddGi(acc.unused_capacity_gi,
                                          analysis.value.summary.unused_capacity_gi),
          total_unused_pvcs     |-> acc.total_unused_pvcs + analysis.value.summary.unused_pvcs,
          namespaces_with_quota |-> acc.namespaces_with_quota + 1]

\* the body of get_cluster_overview's for loop: the try adds the namespace's
\* metrics, the except skips the namespace
OverviewAdd(acc, analysis) ==
    IF analysis.raises THEN acc
    ELSE [total_pvcs            |-> acc.total_pvcs + analysis.value.summary.total_pvcs,
          total_capacity_gi     |-> AddGi(acc.total_capacity_gi,
                                          analysis.value.summary.total_capacity_gi),
          unused_capacity_gi    |-> AddGi(acc.unused_capacity_gi,
                                          analysis.value.summary.unused_capacity_gi),
          total_unused_pvcs     |-> acc.total_unused_pvcs + analysis.value.summary.unused_pvcs,
          namespaces_with_quota |-> acc.namespaces_with_quota +
                                      (IF analysis.value.summary.has_quota THEN 1 ELSE 0)]

\* ClusterOverview(...) of the return statement (the timestamp is left out)
ClusterOverviewOf(list, acc) ==
    [total_namespaces      |-> Len(list),
     total_pvcs            |-> acc.total_pvcs,
     total_capacity_gi     |-> acc.total_capacity_gi,
     unused_capacity_gi    |-> acc.unused_capacity_gi,
     total_unused_pvcs     |-> acc.total_unused_pvcs,
     namespaces_with_quota |-> acc.namespaces_with_quota]

RECURSIVE OverviewLoop(_, _)
OverviewLoop(c, list) ==
    IF list = <<>> THEN ZeroTotals
    ELSE OverviewAdd(OverviewLoop(c, SubSeq(list, 1, Len(list) - 1)),
                     analyze_namespace(list[Len(list)], K8sOf(c, list[Len(list)])))

\* DashboardAggregator.get_cluster_overview as a function of the cluster
OverviewOfListed(c, listed) ==
    IF listed.raises THEN listed
    ELSE Returned(ClusterOverviewOf(listed.value, OverviewLoop(c, listed.value)))

get_cluster_overview(c) == OverviewOfListed(c, list_runai_namespaces(c))

\* get_namespace_summaries_async as a function of what the cluster answers and
\* of the set of batch offsets whose wait_for times out
RECURSIVE BatchLoop(_, _, _, _, _)
\* the digests one batch adds to the list
BatchDigests(c, batch, timed) ==
    IF timed THEN TimeoutDigests(batch, [j \in 1..Len(batch) |-> None])
    ELSE GatherDigests(batch, [j \in 1..Len(batch) |-> fetch_summary(batch[j], c)])

BatchLoop(c, list, size, offset, timeouts) ==
    IF offset >= Len(list) THEN <<>>
    ELSE BatchDigests(c, Slice(list, offset, size), offset \in timeouts)
         \o BatchLoop(c, list, size, offset + size, timeouts)

\* `if namespaces is None: namespaces = list_runai_namespaces()`
NamespacesOf(c, names) ==
    IF IsNone(names) THEN list_runai_namespaces(c) ELSE Returned(Get(names))

SummariesOfListed(c, listed, size, timeouts) ==
    IF listed.raises THEN listed
    ELSE Returned(BatchLoop(c, listed.value, size, 0, timeouts))

get_namespace_summaries_async(c, names, size, timeouts) ==
    SummariesOfListed(c, NamespacesOf(c, names), size, timeouts)

\* ------------------------------------------------------------------ graphs
DEFAULT_NAMESPACE_BATCH_SIZE == 20
\* wait_for(..., timeout=30.0)
BATCH_TIMEOUT == 30

GraphTypes == {"storage_usage", "top_unused", "storage_class_dist",
               "age_distribution", "unused_capacity", "pvc_count"}

\* a filter that lets every digest through
HasNoError_Any(s) == TRUE

HasNoError(s) == s.error = None

\* the sort key of a digest is below that of another
KeyLess(a, b, key) ==
    IF key \in {"total_capacity_gi", "unused_capacity_gi"} THEN GiLess(a[key], b[key])
    ELSE a[key] < b[key]

\* sorted(list, key=..., reverse=True): descending and stable
RECURSIVE InsertDesc(_, _, _)
InsertDesc(sorted, x, key) ==
    IF sorted = <<>> THEN <<x>>
    ELSE IF KeyLess(Head(sorted), x, key) THEN <<x>> \o sorted
    ELSE <<Head(sorted)>> \o InsertDesc(Tail(sorted), x, key)

RECURSIVE SortedDesc(_, _)
SortedDesc(list, key) ==
    IF list = <<>> THEN <<>>
    ELSE InsertDesc(SortedDesc(SubSeq(list, 1, Len(list) - 1), key), list[Len(list)], key)

\* a slice that keeps the tail of the list instead of its head
Truncate_Tail(list, limit) ==
    IF IsNone(limit) \/ Get(limit) = 0 THEN list
    ELSE SubSeq(list, IF Get(limit) < Len(list) THEN Len(list) - Get(limit) + 1 ELSE 1, Len(list))

\* list[:limit] under `if limit:` (None and 0 leave the list whole)
Truncate(list, limit) ==
    IF IsNone(limit) \/ Get(limit) = 0 THEN list
    ELSE SubSeq(list, 1, IF Get(limit) < Len(list) THEN Get(limit) ELSE Len(list))

\* the stacked bars of _generate_storage_usage_graph over the chosen digests
UsageBars(chosen) ==
    [type     |-> "bar",
     labels   |-> [n \in 1..Len(chosen) |-> chosen[n].namespace],
     datasets |-> << [label |-> "Used (GiB)",
                      data  |-> [n \in 1..Len(chosen) |->
                                   SubGi(chosen[n].total_capacity_gi,
                                         chosen[n].unused_capacity_gi)]],
                     [label |-> "Unused (GiB)",
                      data  |-> [n \in 1..Len(chosen) |-> chosen[n].unused_capacity_gi]] >>]

generate_storage_usage_graph(valid, limit) ==
    UsageBars(IF IsNone(limit) \/ Get(limit) = 0 THEN valid
              ELSE Truncate(SortedDesc(valid, "total_capacity_gi"), limit))

\* _generate_top_unused_graph, _generate_unused_capacity_graph and
\* _generate_pvc_count_graph: sort by the key, truncate, project
KeyBars(chosen, key, label) ==
    [type     |-> "bar",
     labels   |-> [n \in 1..Len(chosen) |-> chosen[n].namespace],
     datasets |-> << [label |-> label,
                      data  |-> [n \in 1..Len(chosen) |-> chosen[n][key]]] >>]

generate_sorted_graph(valid, limit, key, label) ==
    KeyBars(Truncate(SortedDesc(valid, key), limit), key, label)

\* the placeholder of _generate_storage_class_graph
generate_storage_class_graph(valid) ==
    [type     |-> "doughnut",
     labels   |-> <<"standard", "fast", "archive">>,
     datasets |-> << [label |-> "", data |-> <<60, 30, 10>>] >>]

\* StorageAnalyzer.get_unused_pvcs
UnusedOf(pvcs_with_pods) ==
    IF pvcs_with_pods.raises THEN pvcs_with_pods
    ELSE Returned(SelectSeq(pvcs_with_pods.value, IsUnused))

get_unused_pvcs(k8s) == UnusedOf(get_pvcs_with_pods(k8s))

AgeBuckets == <<"0-7d", "8-30d", "31-90d", "91-180d", "180d+">>
\* a bucketing whose upper edges are exclusive
AgeBucket_Exclusive(pvc_wp) ==
    LET age_days == IF IsNone(pvc_wp.pvc.age_days) THEN 0 ELSE Get(pvc_wp.pvc.age_days)
    IN IF age_days < 7 THEN "0-7d"
       ELSE IF age_days < 30 THEN "8-30d"
       ELSE IF age_days < 90 THEN "31-90d"
       ELSE IF age_days < 180 THEN "91-180d"
       ELSE "180d+"

\* the bucket of one unused claim: `age_days = pvc_wp.pvc.age_days or 0`
AgeBucket(pvc_wp) ==
    LET age_days == IF IsNone(pvc_wp.pvc.age_days) THEN 0 ELSE Get(pvc_wp.pvc.age_days)
    IN IF age_days <= 7 THEN "0-7d"
       ELSE IF age_days <= 30 THEN "8-30d"
       ELSE IF age_days <= 90 THEN "31-90d"
       ELSE IF age_days <= 180 THEN "91-180d"
       ELSE "180d+"

\* the unused claims the age loop reads, namespace after namespace; a namespace
\* whose read raises is skipped
RECURSIVE UnusedAcross(_, _)
\* the try/except of the age loop around one namespace's read
ReadOrSkip(unused) == IF unused.raises THEN <<>> ELSE unused.value

UnusedAcross(c, list) ==
    IF list = <<>> THEN <<>>
    ELSE ReadOrSkip(get_unused_pvcs(K8sOf(c, Head(list)))) \o UnusedAcross(c, Tail(list))

AgeBars(unused) ==
    [type     |-> "bar",
     labels   |-> AgeBuckets,
     datasets |-> << [label |-> "Unused PVCs",
                      data  |-> [b \in 1..Len(AgeBuckets) |->
                          Cardinality({n \in 1..Len(unused) :
                              AgeBucket(unused[n]) = AgeBuckets[b]})]] >>]

AgeGraphOfListed(c, listed) ==
    IF listed.raises THEN listed
    ELSE Returned(AgeBars(UnusedAcross(c, listed.value)))

generate_age_distribution_graph(c, names) == AgeGraphOfListed(c, NamespacesOf(c, names))

\* DashboardAggregator.get_graph_data_async: the digests are fetched first, the
\* graph type is looked at afterwards
\* the if/elif chain on graph_type
GraphOfValid(c, graph_type, names, limit, valid_summaries) ==
    IF graph_type = "storage_usage"
         THEN Returned(generate_storage_usage_graph(valid_summaries, limit))
    ELSE IF graph_type = "top_unused"
         THEN Returned(generate_sorted_graph(valid_summaries, limit, "unused_pvcs", "Unused PVCs"))
    ELSE IF graph_type = "storage_class_dist"
         THEN Returned(generate_storage_class_graph(valid_summaries))
    ELSE IF graph_type = "age_distribution"
         THEN generate_age_distribution_graph(c, names)
    ELSE IF graph_type = "unused_capacity"
         THEN Returned(generate_sorted_graph(valid_summaries, limit, "unused_capacity_gi",
                                             "Unused Capacity (GiB)"))
    ELSE IF graph_type = "pvc_count"
         THEN Returned(generate_sorted_graph(valid_summaries, limit, "total_pvcs", "Total PVCs"))
    ELSE Raised("ValueError", "Unknown graph type")

\* get_graph_data_async after `summaries = await get_namespace_summaries_async()`
GraphOfFetched(c, graph_type, names, limit, fetched) ==
    IF fetched.raises THEN fetched
    ELSE GraphOfValid(c, graph_type, names, limit, SelectSeq(fetched.value, HasNoError))

get_graph_data_async(c, graph_type, names, limit, timeouts) ==
    GraphOfFetched(c, graph_type, names, limit,
        get_namespace_summaries_async(c, names, DEFAULT_NAMESPACE_BATCH_SIZE, timeouts))

\* the route GET /dashboard/graphs/{graph_type}: the response's status and body
GraphResponse(graph_data) ==
    IF ~graph_data.raises
    THEN [status |-> 200, body |-> Some(graph_data.value), detail |-> ""]
    ELSE IF graph_data.type = "ValueError"
    THEN [status |-> 400, body |-> None, detail |-> "Invalid graph type"]
    ELSE [status |-> 500, body |-> None, detail |-> "Failed to generate graph data"]

get_graph_data(c, graph_type, names, limit, timeouts) ==
    GraphResponse(get_graph_data_async(c, graph_type, names, limit, timeouts))

\* ------------------------------------------------ dashboard routes: cache
CACHE_TTL == 30

CacheKeys == {"overview", "summaries"}

\* _cache as the module is imported
EmptyCache == [cache_key \in CacheKeys |-> [data |-> None, timestamp |-> None]]

\* bool(value) of what the cache holds under a key: None is false, the
\* ClusterOverview object is true, a list is true unless it is empty
Truthy(cache_key, value) ==
    /\ value # None
    /\ cache_key = "summaries" => Get(value) # <<>>

\* a lookup that still serves an entry whose age equals the TTL
get_cached_Inclusive(c, cache_key, t) ==
    IF /\ Truthy(cache_key, c[cache_key].data)
       /\ c[cache_key].timestamp # None
       /\ t - Get(c[cache_key].timestamp) <= CACHE_TTL
    THEN c[cache_key].data
    ELSE None

\* get_cached at time t: Optional
get_cached(c, cache_key, t) ==
    IF /\ Truthy(cache_key, c[cache_key].data)
       /\ c[cache_key].timestamp # None
       /\ t - Get(c[cache_key].timestamp) < CACHE_TTL
    THEN c[cache_key].data
    ELSE None

\* set_cache at time t
set_cache(c, cache_key, data, t) ==
    [c EXCEPT ![cache_key] = [data |-> Some(data), timestamp |-> Some(t)]]

\* a digest route that stores whatever it computed
StoreSummaries_Always(c, names, data, t) == set_cache(c, "summaries", data, t)

\* `if namespaces is None: set_cache("summaries", summaries)`
StoreSummaries(c, names, data, t) ==
    IF IsNone(names) THEN set_cache(c, "summaries", data, t) ELSE c

\* the responses of the two routes
Ok(body) == [status |-> 200, body |-> Some(body)]
InternalError == [status |-> 500, body |-> None]

\* One request of a cached route as the model records it: what the handler
\* was given and saw when it started (arrived, seen: the cache entry of its
\* route), whether it answered from the cache (hit), what its computation read
\* (listed, timeouts, backing) and what it answered (finished, response).
Answered(route, names, t, seen, hit, listed, backing, response) ==
    [route |-> route, namespaces |-> names, pc |-> "done", arrived |-> t, seen |-> seen,
     hit |-> hit, listed |-> listed, timeouts |-> {}, backing |-> backing,
     finished |-> Some(t), response |-> Some(response)]

Awaiting(names, t, seen, listed) ==
    [route |-> "summaries", namespaces |-> names, pc |-> "awaiting", arrived |-> t,
     seen |-> seen, hit |-> FALSE, listed |-> Some(listed), timeouts |-> {},
     backing |-> None, finished |-> None, response |-> None]

\* the route get_cluster_overview after get_cached has answered: the new cache
\* and the request's record
OverviewHandled(c, k, t, cached, computed) ==
    IF Truthy("overview", cached)
    THEN [cache   |-> c,
          request |-> Answered("overview", None, t, c["overview"], TRUE, None, None,
                               Ok(Get(cached)))]
    ELSE IF computed.raises
    THEN [cache   |-> c,
          request |-> Answered("overview", None, t, c["overview"], FALSE, None, Some(k),
                               InternalError)]
    ELSE [cache   |-> set_cache(c, "overview", computed.value, t),
          request |-> Answered("overview", None, t, c["overview"], FALSE, None, Some(k),
                               Ok(computed.value))]

\* the route get_namespace_summaries up to its first suspension, after
\* get_cached and the namespace listing have answered; with no namespace to
\* fetch the coroutine never suspends and the handler runs to its return
SummariesStarted(c, k, names, t, cached, listed) ==
    IF IsNone(names) /\ Truthy("summaries", cached)
    THEN [cache   |-> c,
          request |-> Answered("summaries", names, t, c["summaries"], TRUE, None, None,
                               Ok(Get(cached)))]
    ELSE IF listed.raises
    THEN [cache   |-> c,
          request |-> Answered("summaries", names, t, c["summaries"], FALSE, None, Some(k),
                               InternalError)]
    ELSE IF listed.value = <<>>
    THEN [cache   |-> StoreSummaries(c, names, <<>>, t),
          request |-> Answered("summaries", names, t, c["summaries"], FALSE,
                               Some(listed.value), Some(k), Ok(<<>>))]
    ELSE [cache   |-> c,
          request |-> Awaiting(names, t, c["summaries"], listed.value)]

\* a route that keeps the digests with an error out of the cache
SummariesResumed_CleanOnly(c, k, req, t, timeouts, digests) ==
    [cache   |-> StoreSummaries(c, req.namespaces, SelectSeq(digests, HasNoError), t),
     request |-> [req EXCEPT !.pc = "done", !.timeouts = timeouts, !.backing = Some(k),
                             !.finished = Some(t), !.response = Some(Ok(digests))]]

\* the rest of get_namespace_summaries once the awaited digests are there
SummariesResumed(c, k, req, t, timeouts, digests) ==
    [cache   |-> StoreSummaries(c, req.namespaces, digests, t),
     request |-> [req EXCEPT !.pc = "done", !.timeouts = timeouts, !.backing = Some(k),
                             !.finished = Some(t), !.response = Some(Ok(digests))]]

\* ------------------------------------------------- server.py: live updates
\* asyncio.sleep(30)
UPDATE_INTERVAL == 30

\* a tracking that starts the namespace's list anew for every connection
Register_Reset(conns, namespace, websocket) ==
    IF namespace \in DOMAIN conns
    THEN [conns EXCEPT ![namespace] = <<websocket>>]
    ELSE DictUpdate(conns, [key \in {namespace} |-> <<websocket>>])

\* `active_connections[namespace].append(websocket)`, the key created when absent
Register(conns, namespace, websocket) ==
    IF namespace \in DOMAIN conns
    THEN [conns EXCEPT ![namespace] = Append(@, websocket)]
    ELSE DictUpdate(conns, [key \in {namespace} |-> <<websocket>>])

\* list.remove(x): the first occurrence goes
RECURSIVE RemoveFirst(_, _)
RemoveFirst(list, x) ==
    IF list = <<>> THEN <<>>
    ELSE IF Head(list) = x THEN Tail(list)
    ELSE <<Head(list)>> \o RemoveFirst(Tail(list), x)

DeleteKey(d, key) == [k \in (DOMAIN d) \ {key} |-> d[k]]

\* a finally block that drops the namespace's whole list
Unregister_DropKey(conns, namespace, websocket) ==
    IF namespace \in DOMAIN conns THEN DeleteKey(conns, namespace) ELSE conns

\* the finally block of websocket_namespace_updates
Unregister(conns, namespace, websocket) ==
    IF namespace \in DOMAIN conns
    THEN IF RemoveFirst(conns[namespace], websocket) = <<>>
         THEN DeleteKey(conns, namespace)
         ELSE [conns EXCEPT ![namespace] = RemoveFirst(@, websocket)]
    ELSE conns

\* the payload of one loop iteration: the update, or the error of an analysis
\* that raised (the update's timestamp is left out)
PayloadOf(namespace, analysis) ==
    IF analysis.raises
    THEN [type |-> "error", error |-> analysis.error]
    ELSE [type |-> "update", namespace |-> namespace,
          summary |-> analysis.value.summary, pvcs |-> analysis.value.pvcs]

\* a loop that an analysis failure brings down
Iterate_Fatal(sock, analysis) ==
    IF analysis.raises
    THEN [sock EXCEPT !.pc = "failed", !.analyses = @ + 1]
    ELSE [sock EXCEPT !.pc = "sending", !.analyses = @ + 1,
                      !.payload = Some(PayloadOf(sock.namespace, analysis))]

\* one iteration of `while True` up to `await safe_send(payload)`
Iterate(sock, analysis) ==
    [sock EXCEPT !.pc = "sending", !.analyses = @ + 1,
                 !.payload = Some(PayloadOf(sock.namespace, analysis))]

\* what `await websocket.send_json(payload)` does: it returns, or it raises
\* WebSocketDisconnect, the RuntimeError 'Cannot call "send" ...' of a closed
\* socket, or something else
SendOutcomes == {"sent", "WebSocketDisconnect", "CannotCallSend", "OtherError"}

\* safe_send: True, False, or the exception goes on
safe_send(outcome) ==
    IF outcome = "sent" THEN Returned(TRUE)
    ELSE IF outcome \in {"WebSocketDisconnect", "CannotCallSend"} THEN Returned(FALSE)
    ELSE Raised("RuntimeError", outcome)

\* the handler after safe_send: sleep, break, or leave with the exception
AfterSend(sock, should_continue, t) ==
    IF should_continue.raises
    THEN [sock EXCEPT !.pc = "failed", !.finished = Some(t)]
    ELSE IF ~should_continue.value
    THEN [sock EXCEPT !.pc = "closed", !.finished = Some(t)]
    ELSE [sock EXCEPT !.pc = "sleeping", !.slept_from = Some(t),
                      !.pushed = Append(@, Get(sock.payload).type)]

--------------------------------------------------------------------------
VARIABLES
    cluster,        \* what the Kubernetes API answers (the environment)
    \* DashboardAggregator.get_namespace_summaries_async, one call
    pc,             \* "idle", "call", "loop", "await", "done", "raised"
    namespaces,     \* the namespaces argument: None, or the list
    batch_size,
    i,              \* the loop variable: offset of the current batch
    tasks,          \* per position of namespaces: the _fetch_summary task
    in_flight,      \* positions whose analysis was handed to the executor and
                    \* has not returned
    max_workers,    \* the threads of the event loop's default executor
    summaries,      \* the result list
    timed_out       \* offsets of the batches whose wait_for timed out

VARIABLES
    \* DashboardAggregator.get_cluster_overview, one call
    ov_pc,          \* "idle", "call", "loop", "done", "raised"
    ov_namespaces,  \* its local list of namespaces
    ov_k,           \* how many of them the for loop has been through
    totals,         \* total_pvcs, total_capacity_gi, unused_capacity_gi,
                    \* total_unused_pvcs, namespaces_with_quota
    overview        \* the returned ClusterOverview (None before)

VARIABLES
    graph           \* one request GET /dashboard/graphs/{graph_type} and its response

VARIABLES
    now,            \* datetime.now(), in seconds
    \* dashboard_routes: the module's cache and the requests of its two routes
    cache,          \* _cache: key -> [data, timestamp]
    requests        \* per request: route, argument, progress, response

VARIABLES
    \* server.py: the websocket endpoint /ws/namespaces/{namespace}
    active_connections,   \* namespace -> list of websockets
    sockets               \* per websocket: its handler's progress and its peer

VARIABLES
    stream          \* one call of DashboardAggregator.stream_namespace_summaries

VARIABLES
    call            \* one call of a service or analyzer method: input and outcome

digestVars == <<pc, namespaces, batch_size, i, tasks, in_flight, max_workers, summaries, timed_out>>
overviewVars == <<ov_pc, ov_namespaces, ov_k, totals, overview>>
cacheVars == <<cache, requests>>
wsVars == <<active_connections, sockets>>
vars == <<cluster, now, digestVars, overviewVars, graph, cacheVars, wsVars, stream, call>>

\* what each specification leaves alone
digestFrame == <<now, overviewVars, graph, cacheVars, wsVars, stream, call>>
overviewFrame == <<now, digestVars, graph, cacheVars, wsVars, stream, call>>
graphFrame == <<now, digestVars, overviewVars, cacheVars, wsVars, stream, call>>
cacheFrame == <<digestVars, overviewVars, graph, wsVars, stream, call>>
wsFrame == <<digestVars, overviewVars, graph, cacheVars, stream, call>>
streamFrame == <<now, digestVars, overviewVars, graph, cacheVars, wsVars, call>>
callFrame == <<digestVars, overviewVars, graph, cacheVars, wsVars, stream>>

StreamIdle ==
    stream = [pc |-> "idle", namespaces |-> <<>>, tasks |-> <<>>, queue |-> <<>>,
              yielded |-> <<>>]

CallIdle == call = [method |-> "", arg |-> None, result |-> None, calls |-> 0]

GraphIdle ==
    graph = [pc |-> "idle", graph_type |-> "", namespaces |-> None, limit |-> None,
             timeouts |-> {}, response |-> None]

CacheIdle ==
    /\ cache = EmptyCache
    /\ requests = <<>>

WsIdle ==
    /\ active_connections = EmptyDict
    /\ sockets = <<>>

DigestIdle ==
    /\ pc = "idle"
    /\ namespaces = None
    /\ batch_size = 0
    /\ i = 0
    /\ tasks = <<>>
    /\ in_flight = {}
    /\ max_workers = 0
    /\ summaries = <<>>
    /\ timed_out = {}

OverviewIdle ==
    /\ ov_pc = "idle"
    /\ ov_namespaces = <<>>
    /\ ov_k = 0
    /\ totals = <<>>
    /\ overview = None

\* ThreadPoolExecutor's default max_workers, `min(32, os.cpu_count() + 4)`
ExecutorWorkers(cpus) == IF cpus + 4 < 32 THEN cpus + 4 ELSE 32

\* the hosts the monitor runs on, by their number of CPUs
CpuCounts == {1, 8}

\* the executor's threads take the jobs in the order they were handed in: of
\* the jobs that have not returned, the first `workers` are running, each
\* inside one of the listings of its analysis
RunningJobs(jobs, workers) == {k \in jobs : Cardinality({m \in jobs : m < k}) < workers}

NewTask == [state |-> "new", result |-> None]

\* the call: `if namespaces is None: namespaces = list_runai_namespaces()`
Enter ==
    /\ pc = "call"
    /\ LET listed == IF IsNone(namespaces) THEN list_runai_namespaces(cluster)
                     ELSE Returned(Get(namespaces))
       IN IF listed.raises
          THEN /\ pc' = "raised"
               /\ UNCHANGED <<namespaces, tasks>>
          ELSE /\ pc' = "loop"
               /\ namespaces' = Some(listed.value)
               /\ tasks' = [k \in 1..Len(listed.value) |-> NewTask]
    /\ UNCHANGED <<cluster, batch_size, max_workers, i, in_flight, summaries, timed_out>>

\* one iteration of `for i in range(0, len(namespaces), batch_size)` up to the
\* await: the batch's tasks are created and gathered
StartBatch ==
    /\ pc = "loop"
    /\ i < Len(Get(namespaces))
    /\ LET batch == Positions(Get(namespaces), i, batch_size)
       IN /\ tasks' = [k \in DOMAIN tasks |->
                         IF k \in batch THEN [state |-> "running", result |-> None]
                         ELSE tasks[k]]
          /\ in_flight' = in_flight \cup batch
    /\ pc' = "await"
    /\ UNCHANGED <<cluster, namespaces, batch_size, max_workers, i, summaries, timed_out>>

\* the executor finishes analyze_namespace for position k; the task, unless it
\* was cancelled meanwhile, completes with _fetch_summary's digest
ExecutorDone(k) ==
    /\ k \in RunningJobs(in_flight, max_workers)
    /\ in_flight' = in_flight \ {k}
    /\ tasks' = IF tasks[k].state = "running"
                THEN [tasks EXCEPT ![k] =
                        [state  |-> "done",
                         result |-> Some(fetch_summary(Get(namespaces)[k], cluster))]]
                ELSE tasks
    /\ UNCHANGED <<cluster, pc, namespaces, batch_size, max_workers, i, summaries, timed_out>>

\* wait_for returns gather's results: every task of the batch is done
GatherReturns ==
    /\ pc = "await"
    /\ LET pos == Positions(Get(namespaces), i, batch_size)
           batch == Slice(Get(namespaces), i, batch_size)
       IN /\ \A k \in pos : tasks[k].state = "done"
          /\ summaries' = summaries \o
                GatherDigests(batch, [j \in 1..Len(batch) |-> Get(tasks[i + j].result)])
    /\ i' = i + batch_size
    /\ pc' = "loop"
    /\ UNCHANGED <<cluster, namespaces, batch_size, max_workers, tasks, in_flight, timed_out>>

\* wait_for raises TimeoutError: 30 seconds passed and some task of the batch
\* is not done; gather and the batch's tasks are cancelled (the executor's
\* threads run on), and the whole batch is marked
WaitForTimeout ==
    /\ pc = "await"
    /\ LET pos == Positions(Get(namespaces), i, batch_size)
           batch == Slice(Get(namespaces), i, batch_size)
       IN /\ \E k \in pos : tasks[k].state = "running"
          /\ summaries' = summaries \o
                TimeoutDigests(batch, [j \in 1..Len(batch) |-> tasks[i + j].result])
          /\ tasks' = [k \in DOMAIN tasks |->
                         IF k \in pos THEN [state |-> "cancelled", result |-> None]
                         ELSE tasks[k]]
    /\ timed_out' = timed_out \cup {i}
    /\ i' = i + batch_size
    /\ pc' = "loop"
    /\ UNCHANGED <<cluster, namespaces, batch_size, max_workers, in_flight>>

\* `return summaries`
Return ==
    /\ pc = "loop"
    /\ i >= Len(Get(namespaces))
    /\ pc' = "done"
    /\ UNCHANGED <<cluster, namespaces, batch_size, max_workers, i, tasks, in_flight, summaries, timed_out>>

\* the explicit namespace lists a caller passes: none, the tenants in reverse,
\* one namespace twice
ExplicitLists == {<<>>, [k \in 1..MaxNs |-> MaxNs + 1 - k], <<1, 1>>}

Init ==
    /\ cluster \in Clusters
    /\ pc = "call"
    /\ namespaces \in {None} \cup {Some(l) : l \in ExplicitLists}
    /\ batch_size \in 1..MaxBatch
    /\ i = 0
    /\ tasks = <<>>
    /\ in_flight = {}
    /\ max_workers = ExecutorWorkers(1)
    /\ summaries = <<>>
    /\ timed_out = {}
    /\ now = 0
    /\ OverviewIdle
    /\ GraphIdle
    /\ CacheIdle
    /\ WsIdle
    /\ StreamIdle
    /\ CallIdle

Next ==
    \/ Enter /\ UNCHANGED digestFrame
    \/ StartBatch /\ UNCHANGED digestFrame
    \/ \E k \in in_flight : ExecutorDone(k) /\ UNCHANGED digestFrame
    \/ GatherReturns /\ UNCHANGED digestFrame
    \/ WaitForTimeout /\ UNCHANGED digestFrame
    \/ Return /\ UNCHANGED digestFrame

Spec == Init /\ [][Next]_vars

--------------------------------------------------------------------------
\* offset of the batch that position k of namespaces belongs to
BatchOffset(k) == ((k - 1) \div batch_size) * batch_size

\* the state machine and the function agree on the returned list
DigestRunMatchesFunction ==
    pc = "done" =>
        summaries = BatchLoop(cluster, Get(namespaces), batch_size, 0, timed_out)

\* C1: every namespace of a batch whose wait_for timed out is reported with a
\* digest carrying its name and a non-null error, and the digest of a namespace
\* of any other batch is what its own fetch gives, whatever batches timed out;
\* the returned list holds one digest per namespace.
C1_BatchTimeout ==
    /\ pc \in {"loop", "await", "done"} =>
         \A k \in 1..Len(summaries) :
            LET ns == Get(namespaces)[k]
            IN IF BatchOffset(k) \in timed_out
               THEN summaries[k].namespace = ns /\ summaries[k].error # None
               ELSE summaries[k] = fetch_summary(ns, cluster).value
    /\ pc = "done" => Len(summaries) = Len(Get(namespaces))

\* a run with a timed-out batch holding a namespace whose own fetch succeeds,
\* beside a batch that completed with a successful digest
C1_Witness ==
    /\ pc = "done"
    /\ \E k1, k2 \in 1..Len(summaries) :
          /\ BatchOffset(k1) \in timed_out
          /\ fetch_summary(Get(namespaces)[k1], cluster).value.error = None
          /\ BatchOffset(k2) \notin timed_out
          /\ summaries[k2].error = None

SameMetrics(digest, summary) ==
    /\ digest.total_pvcs = summary.total_pvcs
    /\ digest.unused_pvcs = summary.unused_pvcs
    /\ digest.bound_pvcs = summary.bound_pvcs
    /\ digest.pending_pvcs = summary.pending_pvcs
    /\ digest.total_capacity_gi = summary.total_capacity_gi
    /\ digest.unused_capacity_gi = summary.unused_capacity_gi
    /\ digest.has_quota = summary.has_quota

\* C2: in a batch that did not time out, a namespace whose analysis raises
\* yields one digest with its name and a non-null error, and every namespace
\* whose analysis succeeds yields a digest with error None and its own metrics.
C2_FailureIsolated ==
    pc \in {"loop", "await", "done"} =>
        /\ Len(summaries) <= Len(Get(namespaces))
        /\ \A k \in 1..Len(summaries) :
              BatchOffset(k) \notin timed_out =>
                 LET ns == Get(namespaces)[k]
                     analysis == analyze_namespace(ns, K8sOf(cluster, ns))
                 IN /\ summaries[k].namespace = ns
                    /\ analysis.raises => summaries[k].error # None
                    /\ ~analysis.raises =>
                          /\ summaries[k].error = None
                          /\ SameMetrics(summaries[k], analysis.value.summary)

\* a completed batch in which one namespace failed beside a sibling with claims
C2_Witness ==
    /\ pc = "done"
    /\ \E k1, k2 \in 1..Len(summaries) :
          /\ BatchOffset(k1) = BatchOffset(k2)
          /\ BatchOffset(k1) \notin timed_out
          /\ summaries[k1].error # None
          /\ summaries[k2].error = None
          /\ summaries[k2].total_pvcs > 0

--------------------------------------------------------------------------
\* get_cluster_overview, statement by statement

\* `namespaces = self.namespace_service.list_runai_namespaces()` and the zeroes
OvEnter ==
    /\ ov_pc = "call"
    /\ LET listed == list_runai_namespaces(cluster)
       IN IF listed.raises
          THEN /\ ov_pc' = "raised"
               /\ UNCHANGED <<ov_namespaces, totals>>
          ELSE /\ ov_pc' = "loop"
               /\ ov_namespaces' = listed.value
               /\ totals' = ZeroTotals
    /\ UNCHANGED <<cluster, ov_k, overview>>

\* one iteration of `for namespace in namespaces`
OvAnalyze ==
    /\ ov_pc = "loop"
    /\ ov_k < Len(ov_namespaces)
    /\ LET namespace == ov_namespaces[ov_k + 1]
       IN totals' = OverviewAdd(totals, analyze_namespace(namespace, K8sOf(cluster, namespace)))
    /\ ov_k' = ov_k + 1
    /\ UNCHANGED <<cluster, ov_pc, ov_namespaces, overview>>

\* `return ClusterOverview(...)`
OvReturn ==
    /\ ov_pc = "loop"
    /\ ov_k = Len(ov_namespaces)
    /\ overview' = Some(ClusterOverviewOf(ov_namespaces, totals))
    /\ ov_pc' = "done"
    /\ UNCHANGED <<cluster, ov_namespaces, ov_k, totals>>

InitOverview ==
    /\ cluster \in Clusters
    /\ DigestIdle
    /\ ov_pc = "call"
    /\ ov_namespaces = <<>>
    /\ ov_k = 0
    /\ totals = <<>>
    /\ overview = None
    /\ now = 0
    /\ GraphIdle
    /\ CacheIdle
    /\ WsIdle
    /\ StreamIdle
    /\ CallIdle

NextOverview ==
    \/ OvEnter /\ UNCHANGED overviewFrame
    \/ OvAnalyze /\ UNCHANGED overviewFrame
    \/ OvReturn /\ UNCHANGED overviewFrame

SpecOverview == InitOverview /\ [][NextOverview]_vars

\* the tenant namespaces whose analysis does not raise
Analyzable(c) ==
    {ns \in DOMAIN c.ns : ~analyze_namespace(ns, K8sOf(c, ns)).raises}
SummaryIn(c, ns) == analyze_namespace(ns, K8sOf(c, ns)).value.summary

RECURSIVE SumOver(_, _, _)
SumOver(c, S, field) ==
    IF S = {} THEN 0
    ELSE LET ns == CHOOSE x \in S : TRUE
         IN SummaryIn(c, ns)[field] + SumOver(c, S \ {ns}, field)

RECURSIVE SumGiOver(_, _, _)
SumGiOver(c, S, field) ==
    IF S = {} THEN ZeroGi
    ELSE LET ns == CHOOSE x \in S : TRUE
         IN AddGi(SummaryIn(c, ns)[field], SumGiOver(c, S \ {ns}, field))

\* C3: the returned overview counts every discovered tenant namespace in
\* total_namespaces, its five totals are the sums over exactly the namespaces
\* whose analysis did not raise, and the call itself raises only when the
\* namespace listing does.
C3_OverviewTotals ==
    /\ ov_pc = "done" =>
         LET ok == Analyzable(cluster)
             o  == Get(overview)
         IN /\ o.total_namespaces = Cardinality(DOMAIN cluster.ns)
            /\ o.total_pvcs = SumOver(cluster, ok, "total_pvcs")
            /\ o.total_unused_pvcs = SumOver(cluster, ok, "unused_pvcs")
            /\ o.total_capacity_gi = SumGiOver(cluster, ok, "total_capacity_gi")
            /\ o.unused_capacity_gi = SumGiOver(cluster, ok, "unused_capacity_gi")
            /\ o.namespaces_with_quota =
                  Cardinality({ns \in ok : SummaryIn(cluster, ns).has_quota})
    /\ ov_pc = "raised" => cluster.list_fails

\* ns1 succeeds with claims and no quota, ns2 raises: the overview is returned
\* with total_namespaces = 2
C3_Witness ==
    /\ ov_pc = "done"
    /\ Get(overview).total_namespaces = 2
    /\ 1 \in Analyzable(cluster)
    /\ 2 \notin Analyzable(cluster)
    /\ Get(overview).total_pvcs > 0
    /\ ~SummaryIn(cluster, 1).has_quota

--------------------------------------------------------------------------
\* GET /dashboard/graphs/{graph_type}

Limits == {None} \cup {Some(n) : n \in 1..MaxLimit}

\* the handler get_graph_data from the request to the response; the batches
\* whose wait_for times out are the environment's choice
GetGraphData(graph_type, names, limit, timeouts) ==
    /\ graph.pc = "idle"
    /\ graph' = [pc         |-> "done",
                 graph_type |-> graph_type,
                 namespaces |-> names,
                 limit      |-> limit,
                 timeouts   |-> timeouts,
                 response   |-> Some(get_graph_data(cluster, graph_type, names, limit, timeouts))]
    /\ UNCHANGED cluster

\* clusters that hold the namespace of aged claims
AgedClusters ==
    {[list_fails |-> FALSE, ns |-> profiles] :
        profiles \in {<<Aged>>, <<Unreadable, Aged>>, <<Aged, TenantA>>}}

InitGraph ==
    /\ cluster \in Clusters \cup AgedClusters
    /\ now = 0
    /\ DigestIdle
    /\ OverviewIdle
    /\ GraphIdle
    /\ CacheIdle
    /\ WsIdle
    /\ StreamIdle
    /\ CallIdle

NextGraph ==
    \E graph_type \in GraphTypes \cup {"bogus_kind"},
       names \in {None} \cup {Some(l) : l \in ExplicitLists},
       limit \in Limits,
       timeouts \in SUBSET {0} :
          GetGraphData(graph_type, names, limit, timeouts) /\ UNCHANGED graphFrame

SpecGraph == InitGraph /\ [][NextGraph]_vars

\* C4: a request for a graph type outside the six kinds is answered with the
\* caller error (400) and no series, whatever the cluster answers.
C4_UnknownKindIsCallerError ==
    (graph.pc = "done" /\ graph.graph_type \notin GraphTypes) =>
        /\ Get(graph.response).status = 400
        /\ Get(graph.response).body = None

--------------------------------------------------------------------------
\* GET /dashboard/overview and GET /dashboard/namespaces/summaries

\* the clusters the cached routes run against: no tenant namespace, one
\* (tenant-a), and the namespace listing failing
CacheClusters ==
    {c \in Clusters : /\ Len(c.ns) <= 1
                      /\ \A n \in DOMAIN c.ns : c.ns[n] = TenantA
                      /\ c.list_fails => c.ns = <<>>}

\* the namespace subsets a filtered request names
FilterLists == {<<1>>}

\* GET /dashboard/overview: the handler never suspends
OverviewRoute ==
    /\ Len(requests) < MaxReq
    /\ LET handled == OverviewHandled(cache, cluster, now, get_cached(cache, "overview", now),
                                      get_cluster_overview(cluster))
       IN /\ cache' = handled.cache
          /\ requests' = Append(requests, handled.request)
    /\ UNCHANGED <<cluster, now>>

\* GET /dashboard/namespaces/summaries, to the await or to the return
SummariesRoute(names) ==
    /\ Len(requests) < MaxReq
    /\ LET started == SummariesStarted(cache, cluster, names, now,
                                       get_cached(cache, "summaries", now),
                                       NamespacesOf(cluster, names))
       IN /\ cache' = started.cache
          /\ requests' = Append(requests, started.request)
    /\ UNCHANGED <<cluster, now>>

\* the await of request r returns: the one batch completed within its 30 seconds,
\* or its wait_for timed out after them
SummariesResume(r, timeouts) ==
    /\ requests[r].pc = "awaiting"
    /\ IF timeouts = {} THEN now - requests[r].arrived <= BATCH_TIMEOUT
       ELSE now - requests[r].arrived >= BATCH_TIMEOUT
    /\ LET resumed == SummariesResumed(cache, cluster, requests[r], now, timeouts,
                          BatchLoop(cluster, Get(requests[r].listed),
                                    DEFAULT_NAMESPACE_BATCH_SIZE, 0, timeouts))
       IN /\ cache' = resumed.cache
          /\ requests' = [requests EXCEPT ![r] = resumed.request]
    /\ UNCHANGED <<cluster, now>>

\* time passes
Tick ==
    /\ now + TickStep <= MaxTime
    /\ now' = now + TickStep
    /\ UNCHANGED <<cluster, cache, requests>>

\* the cluster changes under the monitor
ClusterChange ==
    /\ cluster' \in CacheClusters \ {cluster}
    /\ UNCHANGED <<now, cache, requests>>

InitCache ==
    /\ cluster \in CacheClusters
    /\ now = 0
    /\ cache = EmptyCache
    /\ requests = <<>>
    /\ DigestIdle
    /\ OverviewIdle
    /\ GraphIdle
    /\ WsIdle
    /\ StreamIdle
    /\ CallIdle

NextCache ==
    \/ OverviewRoute /\ UNCHANGED cacheFrame
    \/ \E names \in {None} \cup {Some(l) : l \in FilterLists} :
          SummariesRoute(names) /\ UNCHANGED cacheFrame
    \/ \E r \in DOMAIN requests, timeouts \in SUBSET {0} :
          SummariesResume(r, timeouts) /\ UNCHANGED cacheFrame
    \/ Tick /\ UNCHANGED cacheFrame
    \/ ClusterChange /\ UNCHANGED cacheFrame

SpecCache == InitCache /\ [][NextCache]_vars

\* a request for a whole aggregate: the overview, or the digests of all namespaces
Unfiltered(req) == req.namespaces = None
\* a cache entry that holds a result
Stored(entry) == entry.data # None /\ entry.timestamp # None
\* ... and is less than 30 seconds old at time t
Fresh(entry, t) == Stored(entry) /\ t - Get(entry.timestamp) < CACHE_TTL
\* request r starts or goes on in this step
Touched(r) == r \notin DOMAIN requests \/ requests'[r] # requests[r]
\* request r returns in this step
Returns(r) == requests'[r].pc = "done" /\ (r \in DOMAIN requests => requests[r].pc # "done")

\* C5: every unfiltered request (overview or all-namespace digests) that
\* arrives while the stored entry of its aggregate is less than 30 seconds old
\* answers with that entry's value and computes nothing itself.
C5_ReadersShareEntry ==
    \A r \in DOMAIN requests :
        (Unfiltered(requests[r]) /\ Fresh(requests[r].seen, requests[r].arrived)) =>
            /\ requests[r].hit
            /\ requests[r].response = Some(Ok(Get(requests[r].seen.data)))

\* the entry that request r2 found is the one request r1 computed and stored
FoundEntryOf(r1, r2) ==
    /\ requests[r1].pc = "done" /\ requests[r2].pc = "done"
    /\ requests[r1].route = "summaries" /\ requests[r2].route = "summaries"
    /\ Unfiltered(requests[r1]) /\ Unfiltered(requests[r2])
    /\ ~requests[r1].hit
    /\ Get(requests[r1].response).status = 200
    /\ requests[r2].seen = [data      |-> Get(requests[r1].response).body,
                            timestamp |-> requests[r1].finished]

\* C6: of two unfiltered digest requests, the second finding the entry the
\* first one stored: inside the 30-second window the second is a cache hit
\* that returns the stored result, whatever that result is; outside the window,
\* with the same backing state read under the same timeouts, the second
\* returns an equal result.
C6_TwiceUnchanged ==
    \A r1, r2 \in DOMAIN requests :
        (r1 < r2 /\ FoundEntryOf(r1, r2)) =>
            IF requests[r2].arrived - Get(requests[r1].finished) < CACHE_TTL
            THEN /\ requests[r2].hit
                 /\ requests[r2].response = requests[r1].response
            ELSE (/\ requests[r2].backing = requests[r1].backing
                  /\ requests[r2].listed = requests[r1].listed
                  /\ requests[r2].timeouts = requests[r1].timeouts)
                 => requests[r2].response = requests[r1].response

\* C7: a step of a digest request that names a namespace subset leaves the
\* cache as it is; the request never answers from the cache, and what it
\* returns is the digest list computed for its subset.
C7_FilteredNeverCached ==
    [][\A r \in DOMAIN requests' :
          (Touched(r) /\ ~Unfiltered(requests'[r])) =>
              /\ cache' = cache
              /\ ~requests'[r].hit
              /\ Returns(r) =>
                    requests'[r].response =
                        Some(Ok(BatchLoop(Get(requests'[r].backing), Get(requests'[r].listed),
                                          DEFAULT_NAMESPACE_BATCH_SIZE, 0,
                                          requests'[r].timeouts)))]_vars

\* a filtered request that started while a digest entry was stored and fresh,
\* computed its own result, and left that entry in place
C7_Witness ==
    \E r \in DOMAIN requests :
        /\ ~Unfiltered(requests[r])
        /\ requests[r].pc = "done"
        /\ Fresh(requests[r].seen, requests[r].arrived)
        /\ ~requests[r].hit
        /\ cache["summaries"] = requests[r].seen

\* what was answered from the cache was stored and less than 30 seconds old
ServedFresh ==
    \A r \in DOMAIN requests :
        requests[r].hit =>
            /\ Fresh(requests[r].seen, requests[r].arrived)
            /\ requests[r].response = Some(Ok(Get(requests[r].seen.data)))

\* an entry is the result and the return time of one computation
EntriesWhole ==
    \A cache_key \in CacheKeys :
        /\ cache[cache_key].data = None <=> cache[cache_key].timestamp = None
        /\ Stored(cache[cache_key]) =>
              \E r \in DOMAIN requests :
                  /\ requests[r].route = cache_key
                  /\ Unfiltered(requests[r])
                  /\ requests[r].pc = "done"
                  /\ ~requests[r].hit
                  /\ requests[r].response = Some(Ok(Get(cache[cache_key].data)))
                  /\ requests[r].finished = cache[cache_key].timestamp

\* an unfiltered request whose computation returns stores result and time together
ReplacesWhole ==
    \A r \in DOMAIN requests' :
        (/\ Returns(r)
         /\ Unfiltered(requests'[r])
         /\ ~requests'[r].hit
         /\ Get(requests'[r].response).status = 200) =>
            cache'[requests'[r].route] = [data      |-> Some(Get(Get(requests'[r].response).body)),
                                          timestamp |-> Some(now)]

\* C8: an entry is served only while its age is below 30 seconds; an
\* unfiltered request that is not served from the cache and whose computation
\* returns replaces the entry's data and timestamp together, and every stored
\* entry is the result of one computation with the time that computation returned.
C8_Memoized30s ==
    /\ [](ServedFresh /\ EntriesWhole)
    /\ [][ReplacesWhole]_vars

\* a request found an entry of age 30 seconds or more, recomputed, and the
\* entry now holds its different result and its return time
C8_Witness ==
    \E r \in DOMAIN requests :
        /\ Unfiltered(requests[r])
        /\ requests[r].pc = "done"
        /\ Stored(requests[r].seen)
        /\ requests[r].arrived - Get(requests[r].seen.timestamp) >= CACHE_TTL
        /\ ~requests[r].hit
        /\ Get(requests[r].response).status = 200
        /\ Get(requests[r].response).body # requests[r].seen.data
        /\ cache[requests[r].route] = [data      |-> Get(requests[r].response).body,
                                       timestamp |-> requests[r].finished]

--------------------------------------------------------------------------
\* /ws/namespaces/{namespace}

\* the clusters the live updates run against: one tenant namespace, readable or not
WsClusters ==
    {c \in Clusters : ~c.list_fails /\ Len(c.ns) = 1 /\ c.ns[1] \in {TenantA, Unreadable}}

\* the namespaces a subscriber asks for: the tenant, and one the cluster lacks
WsNamespaces == {1, 2}

Ended == {"closed", "failed"}

\* a client connects: the handler starts and awaits websocket.accept()
Connect(namespace) ==
    /\ Len(sockets) < MaxSubs
    /\ sockets' = Append(sockets,
                         [namespace |-> namespace, pc |-> "accepting", payload |-> None,
                          slept_from |-> None, pushed |-> <<>>, analyses |-> 0,
                          finished |-> None])
    /\ UNCHANGED <<cluster, now, active_connections>>

\* accept() returns: the connection is tracked and the first iteration runs
\* to its send
Accepted(s) ==
    /\ sockets[s].pc = "accepting"
    /\ active_connections' = Register(active_connections, sockets[s].namespace, s)
    /\ sockets' = [sockets EXCEPT ![s] =
                      Iterate(@, analyze_namespace(@.namespace, K8sOf(cluster, @.namespace)))]
    /\ UNCHANGED <<cluster, now>>

\* `should_continue = await safe_send(payload)` and what follows it: the
\* sleep, or the way out through the finally block
SendReturns(s, outcome) ==
    /\ sockets[s].pc = "sending"
    /\ sockets' = [sockets EXCEPT ![s] = AfterSend(@, safe_send(outcome), now)]
    /\ active_connections' =
          IF outcome = "sent" THEN active_connections
          ELSE Unregister(active_connections, sockets[s].namespace, s)
    /\ UNCHANGED <<cluster, now>>

\* asyncio.sleep(30) returns and the next iteration runs to its send
Wake(s) ==
    /\ sockets[s].pc = "sleeping"
    /\ now - Get(sockets[s].slept_from) >= UPDATE_INTERVAL
    /\ sockets' = [sockets EXCEPT ![s] =
                      Iterate(@, analyze_namespace(@.namespace, K8sOf(cluster, @.namespace)))]
    /\ UNCHANGED <<cluster, now, active_connections>>

WsTick ==
    /\ now + TickStep <= MaxTime
    /\ now' = now + TickStep
    /\ UNCHANGED <<cluster, active_connections, sockets>>

\* the API server answers again for the tenant's claims
ApiRecovers ==
    /\ cluster.ns[1] = Unreadable
    /\ cluster' = [cluster EXCEPT !.ns[1] = TenantA]
    /\ UNCHANGED <<now, active_connections, sockets>>

InitWS ==
    /\ cluster \in WsClusters
    /\ now = 0
    /\ active_connections = EmptyDict
    /\ sockets = <<>>
    /\ DigestIdle
    /\ OverviewIdle
    /\ GraphIdle
    /\ CacheIdle
    /\ StreamIdle
    /\ CallIdle

NextWS ==
    \/ \E namespace \in WsNamespaces : Connect(namespace) /\ UNCHANGED wsFrame
    \/ \E s \in DOMAIN sockets : Accepted(s) /\ UNCHANGED wsFrame
    \/ \E s \in DOMAIN sockets, outcome \in SendOutcomes :
          SendReturns(s, outcome) /\ UNCHANGED wsFrame
    \/ \E s \in DOMAIN sockets : Wake(s) /\ UNCHANGED wsFrame
    \/ WsTick /\ UNCHANGED wsFrame
    \/ ApiRecovers /\ UNCHANGED wsFrame

SpecWS == InitWS /\ [][NextWS]_vars

\* subscriber s is in its namespace's list of active connections
Registered(s) ==
    /\ sockets[s].namespace \in DOMAIN active_connections
    /\ \E n \in DOMAIN active_connections[sockets[s].namespace] :
          active_connections[sockets[s].namespace][n] = s
\* subscriber s is inside its loop
Running(s) == sockets[s].pc \in {"sending", "sleeping"}

RunningRegistered == \A s \in DOMAIN sockets : Running(s) <=> Registered(s)

\* a subscriber whose loop has ended does nothing more
EndedStay ==
    \A s \in DOMAIN sockets : sockets[s].pc \in Ended => sockets'[s] = sockets[s]

\* the step in which the send of subscriber s fails ends the loop of s,
\* unregisters s, and touches no other subscriber
OnlyThatLoop ==
    \A s \in DOMAIN sockets :
        (sockets[s].pc = "sending" /\ sockets'[s].pc # "sleeping" /\ sockets'[s] # sockets[s]) =>
            /\ sockets'[s].pc \in Ended
            /\ ~Registered(s)'
            /\ \A u \in (DOMAIN sockets) \ {s} :
                  /\ sockets'[u] = sockets[u]
                  /\ Registered(u)' <=> Registered(u)

\* C9: a send that fails ends the loop of its subscriber and of no other:
\* the failed subscriber is unregistered and analyses and sends nothing more,
\* every other subscriber, of the same namespace or another, is left as it
\* was, and a subscriber is registered exactly while its loop runs.
C9_PushFailureIsLocal ==
    /\ []RunningRegistered
    /\ [][EndedStay /\ OnlyThatLoop]_vars

\* two subscribers of one namespace: the send of one failed, the other pushed
\* an update after that and is still registered
C9_Witness ==
    \E s, u \in DOMAIN sockets :
        /\ s # u
        /\ sockets[s].namespace = sockets[u].namespace
        /\ sockets[s].pc = "closed"
        /\ Running(u) /\ Registered(u)
        /\ sockets[u].slept_from # None
        /\ Get(sockets[u].slept_from) > Get(sockets[s].finished)

\* the analysis of one iteration, whether it returns or raises, leads to the
\* send of its payload: the error's text under type "error" when it raised
AnalysisIsPushed ==
    \A s \in DOMAIN sockets :
        (sockets[s].pc \in {"accepting", "sleeping"} /\ sockets'[s] # sockets[s]) =>
            LET analysis == analyze_namespace(sockets[s].namespace,
                                              K8sOf(cluster, sockets[s].namespace))
            IN /\ sockets'[s].pc = "sending"
               /\ sockets'[s].analyses = sockets[s].analyses + 1
               /\ analysis.raises =>
                     sockets'[s].payload = Some([type |-> "error", error |-> analysis.error])
               /\ ~analysis.raises =>
                     /\ Get(sockets'[s].payload).type = "update"
                     /\ Get(sockets'[s].payload).summary = analysis.value.summary

\* a loop is left only from its send, and a sleep lasts 30 seconds
SleepsThenRepeats ==
    \A s \in DOMAIN sockets :
        /\ (sockets[s].pc \notin Ended /\ sockets'[s].pc \in Ended) => sockets[s].pc = "sending"
        /\ (sockets[s].pc = "sending" /\ sockets'[s].pc = "sleeping") =>
              /\ sockets'[s].slept_from = Some(now)
              /\ sockets'[s].pushed = Append(sockets[s].pushed, Get(sockets[s].payload).type)
        /\ (sockets[s].pc = "sleeping" /\ sockets'[s] # sockets[s]) =>
              now - Get(sockets[s].slept_from) >= UPDATE_INTERVAL

\* C10: an analysis that raises becomes an error payload (type "error") and
\* the loop goes on to send it; after a send that succeeds the loop sleeps 30
\* seconds and analyses again; the loop is left only when a send fails.
C10_AnalysisFailureIsPushed ==
    [][AnalysisIsPushed /\ SleepsThenRepeats]_vars

\* a subscriber that pushed an error payload, slept, and is sending the update
\* of its next analysis
C10_Witness ==
    \E s \in DOMAIN sockets :
        /\ sockets[s].pushed # <<>>
        /\ sockets[s].pushed[Len(sockets[s].pushed)] = "error"
        /\ sockets[s].analyses >= 2
        /\ sockets[s].pc = "sending"
        /\ Get(sockets[s].payload).type = "update"

--------------------------------------------------------------------------
\* DashboardAggregator.stream_namespace_summaries

\* a queue that hands out the task that finished last
Enqueue_Front(queue, k) == <<k>> \o queue

\* as_completed: a task joins the queue of finished tasks as it finishes
Enqueue(queue, k) == Append(queue, k)

\* the body of the for loop: the awaited digest, or the digest named "unknown"
\* when the await raises
YieldOf(result) ==
    IF result.raises THEN ErrorSummary("unknown", result.error) ELSE result.value

\* `tasks = [self._fetch_summary(ns) for ns in namespaces]` and as_completed,
\* which schedules every one of them
StreamStart ==
    /\ stream.pc = "call"
    /\ stream' = [stream EXCEPT
                     !.pc = "streaming",
                     !.tasks = [k \in 1..Len(stream.namespaces) |->
                                  [state |-> "running", result |-> None, done_at |-> None]]]
    /\ UNCHANGED cluster

\* the executor finishes the analysis of position k and _fetch_summary returns
StreamTaskDone(k) ==
    /\ stream.pc = "streaming"
    /\ stream.tasks[k].state = "running"
    /\ stream' = [stream EXCEPT
                     !.tasks[k] = [state   |-> "done",
                                   result  |-> Some(fetch_summary(stream.namespaces[k], cluster)),
                                   done_at |-> Some(1 + Cardinality({m \in DOMAIN stream.tasks :
                                                       stream.tasks[m].state = "done"}))],
                     !.queue = Enqueue(@, k)]
    /\ UNCHANGED cluster

\* `summary = await completed; yield summary`
StreamYield ==
    /\ stream.pc = "streaming"
    /\ stream.queue # <<>>
    /\ stream' = [stream EXCEPT
                     !.yielded = Append(@, YieldOf(Get(stream.tasks[Head(stream.queue)].result))),
                     !.queue = Tail(@)]
    /\ UNCHANGED cluster

\* as_completed is exhausted: the generator returns
StreamEnd ==
    /\ stream.pc = "streaming"
    /\ Len(stream.yielded) = Len(stream.namespaces)
    /\ stream' = [stream EXCEPT !.pc = "done"]
    /\ UNCHANGED cluster

InitStream ==
    /\ cluster \in Clusters
    /\ now = 0
    /\ stream \in {[pc |-> "call", namespaces |-> list, tasks |-> <<>>, queue |-> <<>>,
                     yielded |-> <<>>] : list \in ExplicitLists}
    /\ DigestIdle
    /\ OverviewIdle
    /\ GraphIdle
    /\ CacheIdle
    /\ WsIdle
    /\ CallIdle

NextStream ==
    \/ StreamStart /\ UNCHANGED streamFrame
    \/ \E k \in DOMAIN stream.tasks : StreamTaskDone(k) /\ UNCHANGED streamFrame
    \/ StreamYield /\ UNCHANGED streamFrame
    \/ StreamEnd /\ UNCHANGED streamFrame

SpecStream == InitStream /\ [][NextStream]_vars

\* the j-th digest yielded belongs to the task that finished j-th
YieldedFor(j, k) ==
    /\ stream.tasks[k].done_at = Some(j)
    /\ stream.yielded[j].namespace = stream.namespaces[k]
    /\ IF analyze_namespace(stream.namespaces[k], K8sOf(cluster, stream.namespaces[k])).raises
       THEN stream.yielded[j].error # None
       ELSE stream.yielded[j] =
              NamespaceSummaryOf(stream.namespaces[k],
                  analyze_namespace(stream.namespaces[k],
                                    K8sOf(cluster, stream.namespaces[k])).value.summary)

\* C11: the stream yields the digests in the order in which the fetches
\* complete, each carrying its namespace's name (a failed fetch as an error
\* digest, a successful one with its metrics), never more than one per input
\* namespace, and when it ends it has yielded exactly one per input namespace.
C11_StreamCompletionOrder ==
    /\ Len(stream.yielded) <= Len(stream.namespaces)
    /\ \A j \in 1..Len(stream.yielded) :
          \E k \in DOMAIN stream.tasks : YieldedFor(j, k)
    /\ \A k1, k2 \in DOMAIN stream.tasks :
          (k1 # k2 /\ stream.tasks[k1].done_at # None) =>
              stream.tasks[k1].done_at # stream.tasks[k2].done_at
    /\ stream.pc = "done" => Len(stream.yielded) = Len(stream.namespaces)

\* a finished stream whose first digest is the error digest of a namespace
\* listed after the namespace of its second, successful, digest
C11_Witness ==
    /\ stream.pc = "done"
    /\ \E k1, k2 \in DOMAIN stream.tasks :
          /\ k1 > k2
          /\ stream.tasks[k1].done_at = Some(1)
          /\ stream.tasks[k2].done_at = Some(2)
          /\ stream.yielded[1].error # None
          /\ stream.yielded[2].error = None
          /\ Len(stream.yielded) >= 3

--------------------------------------------------------------------------
\* Single calls of the analyzer and its services

\* the name of the n-th claim of a generated namespace
ClaimName(n) == CASE n = 1 -> "A" [] n = 2 -> "B" [] n = 3 -> "C" [] OTHER -> "D"

\* capacities as the API reports them: binary suffix, decimal suffix (float()
\* rejects "5G"), and none
ClaimCapacities == {Some(<<"5", "G", "i">>), Some(<<"5", "G">>), None}

\* a bound claim is 45 days old, or ten seconds short of 31 days; a pending
\* one is 3 days old or has no creation time
ClaimDicts(n) ==
    [name : {ClaimName(n)}, status : {"Bound"}, capacity : ClaimCapacities \ {None},
     storage_class : {Some("fast")},
     created : {Some(45 * SecondsPerDay), Some(31 * SecondsPerDay - 10)}]
    \cup
    [name : {ClaimName(n)}, status : {"Pending"},
     capacity : ClaimCapacities \ {Some(<<"5", "G">>)},
     storage_class : {Some("fast")}, created : {None, Some(3 * SecondsPerDay)}]

ClaimListings ==
    UNION {{l \in [1..n -> UNION {ClaimDicts(k) : k \in 1..n}] :
              \A k \in 1..n : l[k] \in ClaimDicts(k)} : n \in 0..MaxClaims}

PodListings ==
    { <<>>,
      << [name |-> "trainer", pvc_claims |-> <<"A">>] >>,
      << [name |-> "trainer", pvc_claims |-> <<"B", "C">>],
         [name |-> "eval", pvc_claims |-> <<"B">>] >>,
      << [name |-> "loader", pvc_claims |-> <<"B", "B">>] >> }

\* quota objects: a claim count, a storage request with a count int() rejects,
\* and one that constrains no storage
QuotaDicts ==
    { [name |-> "q1", hard_limits |-> ("persistentvolumeclaims" :> <<"4">>),
       used |-> ("persistentvolumeclaims" :> <<"1">>)],
      [name |-> "q2", hard_limits |-> ("requests.storage" :> <<"1", "0", "G", "i">>)
                                       @@ ("persistentvolumeclaims" :> <<"1", "k">>),
       used |-> ("requests.storage" :> <<"5", "G", "i">>)],
      [name |-> "q3", hard_limits |-> ("cpu" :> <<"8">>), used |-> ("cpu" :> <<"2">>)] }

QuotaListings == UNION {[1..n -> QuotaDicts] : n \in 0..MaxQuotas}

Listings == {"pvcs", "pods", "quotas", "storage_classes"}

\* the namespaces a call is tried on: every claim listing under every workload
\* listing, every quota listing, and every set of failing listings
CallProfiles ==
    {[fails |-> {}, pvcs |-> l, pods |-> p, quotas |-> <<>>,
      storage_classes |-> ClusterStorageClasses, clock |-> 0] :
        l \in ClaimListings, p \in PodListings}
    \cup {[TenantA EXCEPT !.quotas = q] : q \in QuotaListings}
    \cup {TenantAMounted, Retired}
    \cup {[k EXCEPT !.fails = f] : k \in {TenantA, WithQuota}, f \in SUBSET Listings}

CallClusters == {[list_fails |-> FALSE, ns |-> <<k>>] : k \in CallProfiles}

\* the namespace as a call at time t finds it
AtClock(k8s, t) == [k8s EXCEPT !.clock = t]

\* `timestamp=datetime.now()` of the StorageAnalysis
Stamped(analysis, t) ==
    IF analysis.raises THEN analysis
    ELSE Returned([f \in DOMAIN analysis.value \cup {"timestamp"} |->
                     IF f = "timestamp" THEN t ELSE analysis.value[f]])

Called(method, arg, result) ==
    [method |-> method, arg |-> arg, result |-> Some(result), calls |-> call.calls + 1]

\* analyzer.analyze_namespace(namespace) on the tenant namespace
CallAnalyze ==
    /\ call.calls < MaxCalls
    /\ call' = Called("analyze_namespace", Some(1),
                      Stamped(analyze_namespace(1, AtClock(K8sOf(cluster, 1), now)), now))
    /\ UNCHANGED <<cluster, now>>

\* pvc_service.get_pvcs_with_pods(namespace) on the tenant namespace
CallGetPvcsWithPods ==
    /\ call.calls < MaxCalls
    /\ call' = Called("get_pvcs_with_pods", Some(1), get_pvcs_with_pods(AtClock(K8sOf(cluster, 1), now)))
    /\ UNCHANGED <<cluster, now>>

\* quota_service.get_storage_quota(namespace) on the tenant namespace
CallGetStorageQuota ==
    /\ call.calls < MaxCalls
    /\ call' = Called("get_storage_quota", Some(1), get_storage_quota(AtClock(K8sOf(cluster, 1), now)))
    /\ UNCHANGED <<cluster, now>>

\* the summaries a caller of the engine hands in with the enriched claims: the
\* counts of the claims, the capacity sums as the caller worked them out
SuppliedSummaries(pvcs_with_pods) ==
    {StorageSummaryOf(1, pvcs_with_pods, None, Returned(sums), Returned(sums)).value :
        sums \in {ZeroGi, [gi |-> 5, frac |-> 0]}}

\* engine.generate_recommendations(pvcs_with_pods, summary) on the enriched
\* claims of the tenant namespace
CallGenerateRecommendations ==
    /\ call.calls < MaxCalls
    /\ ~get_pvcs_with_pods(AtClock(K8sOf(cluster, 1), now)).raises
    /\ \E summary \in SuppliedSummaries(get_pvcs_with_pods(AtClock(K8sOf(cluster, 1), now)).value) :
          call' = Called("generate_recommendations",
                         Some([pvcs_with_pods |->
                                  get_pvcs_with_pods(AtClock(K8sOf(cluster, 1), now)).value,
                               summary |-> summary]),
                         Returned(generate_recommendations(
                                  get_pvcs_with_pods(AtClock(K8sOf(cluster, 1), now)).value,
                                  summary, None)))
    /\ UNCHANGED <<cluster, now>>

\* time passes between two calls
CallTick ==
    /\ now + TickStep <= MaxTime
    /\ now' = now + TickStep
    /\ UNCHANGED <<cluster, call>>

InitCall ==
    /\ cluster \in CallClusters
    /\ now = 0
    /\ DigestIdle
    /\ OverviewIdle
    /\ GraphIdle
    /\ CacheIdle
    /\ WsIdle
    /\ StreamIdle
    /\ CallIdle

NextCall ==
    \/ CallAnalyze /\ UNCHANGED callFrame
    \/ CallGetPvcsWithPods /\ UNCHANGED callFrame
    \/ CallGetStorageQuota /\ UNCHANGED callFrame
    \/ CallGenerateRecommendations /\ UNCHANGED callFrame
    \/ CallTick /\ UNCHANGED callFrame

SpecCall == InitCall /\ [][NextCall]_vars

\* the analysis the last call returned
Analysed == call.method = "analyze_namespace"
LastResult == Get(call.result)
Tenant == K8sOf(cluster, 1)

\* the claims of the tenant whose capacity float() rejects
Malformed(k8s) ==
    {n \in 1..Len(k8s.pvcs) : parse_capacity_to_gi(ToPVC(k8s.pvcs[n], k8s.clock).capacity).raises}

\* the capacity of a claim with an unparseable capacity counted as 0.0
GiOrZero(capacity) ==
    IF parse_capacity_to_gi(capacity).raises THEN ZeroGi
    ELSE parse_capacity_to_gi(capacity).value

RECURSIVE DegradedSum(_)
DegradedSum(pvc_dicts) ==
    IF pvc_dicts = <<>> THEN ZeroGi
    ELSE AddGi(GiOrZero(ToPVC(Head(pvc_dicts), 0).capacity), DegradedSum(Tail(pvc_dicts)))

\* a quota count int() rejects
UnparseableCount(k8s) ==
    /\ k8s.quotas # <<>>
    /\ "persistentvolumeclaims" \in DOMAIN MergeKey(k8s.quotas, "hard_limits")
    /\ ~IsFloat(MergeKey(k8s.quotas, "hard_limits")["persistentvolumeclaims"])

\* C12: when every listing of the namespace answers, analyze_namespace returns
\* an analysis whatever the capacity strings and quota counts are: a claim with
\* an unparseable capacity counts 0.0 in total_capacity_gi, and an unparseable
\* quota count is None.
C12_MalformedDegrades ==
    (Analysed /\ Tenant.fails = {}) =>
        /\ ~LastResult.raises
        /\ LastResult.value.summary.total_capacity_gi = DegradedSum(Tenant.pvcs)
        /\ UnparseableCount(Tenant) =>
              IsNone(Get(LastResult.value.summary.quota).pvc_count_limit)

\* what a recommendation says: its type, the claim it names, the capacity it
\* quotes and the count it quotes (the rollup in its description, the others
\* in their title)
Says(r) ==
    [type     |-> r.type,
     pvc_name |-> r.pvc_name,
     capacity |-> IF r.type = "unused_storage_summary" THEN r.capacity ELSE None,
     count    |-> IF r.type = "unused_storage_summary" THEN r.description
                  ELSE IF r.type = "unused_pvc" THEN None ELSE r.title]

SaidBy(recommendations) == [n \in 1..Len(recommendations) |-> Says(recommendations[n])]

unused_pvc(name) ==
    [type |-> "unused_pvc", pvc_name |-> Some(name), capacity |-> None, count |-> None]
unused_storage_summary(capacity, count) ==
    [type |-> "unused_storage_summary", pvc_name |-> None, capacity |-> Some(capacity),
     count |-> Some(count)]
pending_pvc(count) ==
    [type |-> "pending_pvc", pvc_name |-> None, capacity |-> None, count |-> Some(count)]
old_unused_pvc(count) ==
    [type |-> "old_unused_pvc", pvc_name |-> None, capacity |-> None, count |-> Some(count)]

Gi(n) == [gi |-> n, frac |-> 0]

\* the counts and the unused capacity of the last analysis
Tally(total, bound, pending, unused, unused_capacity) ==
    /\ LastResult.value.summary.total_pvcs = total
    /\ LastResult.value.summary.bound_pvcs = bound
    /\ LastResult.value.summary.pending_pvcs = pending
    /\ LastResult.value.summary.unused_pvcs = unused
    /\ LastResult.value.summary.unused_capacity_gi = unused_capacity

\* C13 as stated: the analysis of "tenant-a" (A Bound 10Gi mounted, B Bound 5Gi
\* unmounted and 45 days old, C Pending 2Gi, mounted or not) has total_pvcs=3,
\* bound_pvcs=1, pending_pvcs=1, unused_pvcs=1, unused_capacity_gi=5.0 and the
\* recommendations [unused_pvc(B), unused_storage_summary(5.0Gi, 1),
\* pending_pvc(1), old_unused_pvc(1)].
C13_TenantAAsStated ==
    (Analysed /\ Tenant \in {TenantA, TenantAMounted}) =>
        /\ ~LastResult.raises
        /\ Tally(3, 1, 1, 1, Gi(5))
        /\ SaidBy(LastResult.value.recommendations) =
              << unused_pvc("B"), unused_storage_summary(<<"5", ".", "0", "0", "G", "i">>, 1),
                 pending_pvc(1), old_unused_pvc(1) >>

\* C13 amended: bound_pvcs is 2, A and B both being Bound. With C mounted by a
\* workload the other expected values are as stated; with C mounted by none, C
\* is unused as well: unused_pvcs=2, unused_capacity_gi=7.0 and the
\* recommendations are [unused_pvc(B), unused_pvc(C),
\* unused_storage_summary(7.0Gi, 2), pending_pvc(1), old_unused_pvc(1)].
C13_TenantAAmended ==
    /\ (Analysed /\ Tenant = TenantAMounted) =>
          /\ ~LastResult.raises
          /\ Tally(3, 2, 1, 1, Gi(5))
          /\ SaidBy(LastResult.value.recommendations) =
                << unused_pvc("B"), unused_storage_summary(<<"5", ".", "0", "0", "G", "i">>, 1),
                   pending_pvc(1), old_unused_pvc(1) >>
    /\ (Analysed /\ Tenant = TenantA) =>
          /\ ~LastResult.raises
          /\ Tally(3, 2, 1, 2, Gi(7))
          /\ SaidBy(LastResult.value.recommendations) =
                << unused_pvc("B"), unused_pvc("C"),
                   unused_storage_summary(<<"7", ".", "0", "0", "G", "i">>, 2),
                   pending_pvc(1), old_unused_pvc(1) >>

\* "tenant-a" with C mounted has been analysed
C13_Witness ==
    /\ Analysed
    /\ Tenant = TenantAMounted
    /\ ~LastResult.raises
    /\ Len(LastResult.value.recommendations) = 4

\* the types of recommendations k .. Len
RECURSIVE TypesFrom(_, _)
TypesFrom(recommendations, k) ==
    IF k > Len(recommendations) THEN <<>>
    ELSE <<recommendations[k].type>> \o TypesFrom(recommendations, k + 1)

\* the first Len(unused) recommendations are the unused_pvc warnings of the
\* unused claims in listing order, and the types after them are `rest`
OrderedAs(recommendations, unused, rest) ==
    /\ Len(recommendations) = Len(unused) + Len(rest)
    /\ \A n \in 1..Len(unused) :
          /\ recommendations[n].type = "unused_pvc"
          /\ recommendations[n].severity = "warning"
          /\ recommendations[n].pvc_name = Some(unused[n].pvc.name)
    /\ TypesFrom(recommendations, Len(unused) + 1) = rest

\* the types that follow the per-claim warnings
RestOf(rollup, stale) ==
    (IF rollup THEN <<"unused_storage_summary">> ELSE <<>>) \o <<"pending_pvc">>
        \o (IF stale THEN <<"old_unused_pvc">> ELSE <<>>)

HasStale(unused) ==
    \E n \in 1..Len(unused) :
        ~IsNone(unused[n].pvc.age_days) /\ Get(unused[n].pvc.age_days) > 30

\* C14: in an analysis with both unused and pending claims the recommendations
\* are the unused_pvc warnings, one per unused claim in listing order, then the
\* unused_storage_summary rollup, then the pending_pvc error, then the
\* old_unused_pvc warning (when an unused claim is older than 30 days), and
\* the rollup is there, once, exactly when the summed unused capacity is > 0.
C14_FixedOrder ==
    (/\ Analysed
     /\ ~LastResult.raises
     /\ LastResult.value.summary.unused_pvcs > 0
     /\ LastResult.value.summary.pending_pvcs > 0) =>
        OrderedAs(LastResult.value.recommendations,
                  SelectSeq(LastResult.value.pvcs, IsUnused),
                  RestOf(GiLess(ZeroGi, LastResult.value.summary.unused_capacity_gi),
                         HasStale(SelectSeq(LastResult.value.pvcs, IsUnused))))

\* an analysis with two unused claims, a rollup, a pending claim and a stale one
C14_Witness ==
    /\ Analysed
    /\ ~LastResult.raises
    /\ LastResult.value.summary.unused_pvcs = 2
    /\ LastResult.value.summary.pending_pvcs > 0
    /\ TypesFrom(LastResult.value.recommendations, 1) =
          <<"unused_pvc", "unused_pvc", "unused_storage_summary", "pending_pvc",
            "old_unused_pvc">>

--------------------------------------------------------------------------
\* PVCService.parse_capacity_to_gi on its own

\* two digits, the blank, the letters of the suffixes and one other letter
CapacityAlphabet == {"1", "5", " ", "T", "G", "M", "K", "i", "x"}

CapacityStrings ==
    UNION {[1..n -> CapacityAlphabet] : n \in 0..MaxCapLen} \cup {Unknown}

ParseCapacity ==
    /\ call.method = "parse_capacity_to_gi"
    /\ call.calls = 0
    /\ call' = Called("parse_capacity_to_gi", call.arg, parse_capacity_to_gi(Get(call.arg)))
    /\ UNCHANGED <<cluster, now>>

InitParse ==
    /\ cluster = [list_fails |-> FALSE, ns |-> <<>>]
    /\ now = 0
    /\ call \in {[method |-> "parse_capacity_to_gi", arg |-> Some(c), result |-> None,
                   calls |-> 0] : c \in CapacityStrings}
    /\ DigestIdle
    /\ OverviewIdle
    /\ GraphIdle
    /\ CacheIdle
    /\ WsIdle
    /\ StreamIdle

NextParse == ParseCapacity /\ UNCHANGED callFrame

SpecParse == InitParse /\ [][NextParse]_vars

Parsed == call.method = "parse_capacity_to_gi" /\ call.calls = 1

\* a non-empty string of digits
IsNumber(c) == c # <<>> /\ \A k \in 1..Len(c) : c[k] \in Digits

\* the number a string of digits writes
RECURSIVE NumberOf(_)
NumberOf(c) == IF c = <<>> THEN 0 ELSE NumberOf(SubSeq(c, 1, Len(c) - 1)) * 10 + DigitVal(c[Len(c)])

HasSuffix(c, letter) ==
    Len(c) >= 3 /\ c[Len(c) - 1] = letter /\ c[Len(c)] = "i" /\ IsNumber(SubSeq(c, 1, Len(c) - 2))

NumberPart(c) == NumberOf(SubSeq(c, 1, Len(c) - 2))

\* the value returned for the inputs the claim gives a value for
ScaledAsStated(c, g) ==
    /\ HasSuffix(c, "T") => g = Gi(NumberPart(c) * 1024)
    /\ HasSuffix(c, "G") => g = Gi(NumberPart(c))
    /\ HasSuffix(c, "M") =>
          g.gi * 1024 + (g.frac \div KiPerGi) = NumberPart(c) /\ g.frac % KiPerGi = 0
    /\ HasSuffix(c, "K") =>
          g.gi * KiPerGi + (g.frac \div 1024) = NumberPart(c) /\ g.frac % 1024 = 0
    /\ (c = Unknown \/ c = <<>>) => g = ZeroGi
    /\ IsNumber(c) => g.gi = NumberOf(c) \div BytesPerGi /\ g.frac = NumberOf(c) % BytesPerGi

\* C15: parse_capacity_to_gi returns a value for every capacity string: the
\* number scaled to GiB for <number>Ti, Gi, Mi and Ki, 0.0 for "Unknown" and
\* the empty string, the number divided by 2^30 for a bare number, and some
\* value, without raising, for every other string.
C15_ParseTotal ==
    Parsed => /\ ~LastResult.raises
              /\ ScaledAsStated(Get(call.arg), LastResult.value)

--------------------------------------------------------------------------
Enriched == call.method = "get_pvcs_with_pods" /\ ~LastResult.raises

\* the workloads of a listing that mount the claim of that name
Mounting(pod_dicts, name) ==
    {pod_dicts[m] : m \in {m \in 1..Len(pod_dicts) :
                              \E c \in 1..Len(pod_dicts[m].pvc_claims) :
                                  pod_dicts[m].pvc_claims[c] = name}}

\* the n-th enriched claim is the n-th listed claim with its workloads
EnrichedAt(enriched, k8s, n) ==
    /\ enriched[n].pvc.name = k8s.pvcs[n].name
    /\ {enriched[n].pods[m] : m \in 1..Len(enriched[n].pods)} =
          Mounting(k8s.pods, k8s.pvcs[n].name)
    /\ enriched[n].is_unused = (Len(enriched[n].pods) = 0)

\* C16: get_pvcs_with_pods returns one enriched claim per listed claim, in
\* listing order; each holds exactly the workloads of the namespace's workload
\* listing whose claim names include the claim's name, and is_unused is true
\* exactly when that list is empty.
C16_UnusedIffNoWorkload ==
    Enriched =>
        /\ Len(LastResult.value) = Len(Tenant.pvcs)
        /\ \A n \in 1..Len(LastResult.value) : EnrichedAt(LastResult.value, Tenant, n)

\* two claims were enriched: a pending one no workload mounts, and one that
\* two workloads mount
C16_Witness ==
    /\ Enriched
    /\ Len(LastResult.value) = 2
    /\ \E n, k \in 1..2 :
          /\ LastResult.value[n].is_unused
          /\ LastResult.value[n].pvc.status = "Pending"
          /\ Len(LastResult.value[k].pods) = 2
          /\ LastResult.value[k].pods[1] # LastResult.value[k].pods[2]

--------------------------------------------------------------------------
\* when the last analysis was made (an analysis that raises reads no clock)
CalledAt == IF LastResult.raises THEN now ELSE LastResult.value.timestamp

\* the namespace with its storage-class listing answering
Healed(k8s) == [k8s EXCEPT !.fails = @ \ {"storage_classes"}]

\* the outcome r is the outcome o but for the storage classes, which are empty
SameButClasses(r, o) ==
    /\ r.raises = o.raises
    /\ r.raises => (r.type = o.type /\ r.error = o.error)
    /\ ~r.raises =>
          /\ r.value.storage_classes = <<>>
          /\ o.value.storage_classes # <<>>
          /\ r.value.summary = o.value.summary
          /\ r.value.recommendations = o.value.recommendations
          /\ r.value.pvcs = o.value.pvcs

\* C17: when the storage-class listing fails, analyze_namespace does what it
\* does when that listing answers, except that storage_classes is empty: the
\* same summary and recommendations; when the claim, workload or quota listing
\* fails, analyze_namespace raises.
C17_ClassListingSwallowed ==
    Analysed =>
        /\ "storage_classes" \in Tenant.fails =>
              SameButClasses(LastResult, analyze_namespace(1, AtClock(Healed(Tenant), CalledAt)))
        /\ Tenant.fails \cap {"pvcs", "pods", "quotas"} # {} =>
              (LastResult.raises /\ LastResult.type = "RuntimeError")

\* "tenant-a" was analysed while only the storage-class listing failed
C17_Witness ==
    /\ Analysed
    /\ Tenant = [TenantA EXCEPT !.fails = {"storage_classes"}]
    /\ ~LastResult.raises
    /\ LastResult.value.storage_classes = <<>>
    /\ Len(LastResult.value.recommendations) = 5

--------------------------------------------------------------------------
QuotaRead == call.method = "get_storage_quota" /\ ~LastResult.raises

\* the quota objects of a listing that hold the key in the field
Holding(quota_dicts, field, key) ==
    {n \in 1..Len(quota_dicts) : key \in DOMAIN quota_dicts[n][field]}

Last(positions) == CHOOSE n \in positions : \A m \in positions : m <= n

\* merged is the merge of the field of all quota objects, the last object that
\* holds a key giving its value
MergedLastWins(merged, quota_dicts, field) ==
    /\ DOMAIN merged = UNION {DOMAIN quota_dicts[n][field] : n \in 1..Len(quota_dicts)}
    /\ \A key \in DOMAIN merged :
          merged[key] = quota_dicts[Last(Holding(quota_dicts, field, key))][field][key]

\* C18: get_storage_quota returns None exactly when the namespace has no quota
\* object; otherwise one quota whose hard_limits and used are the merge of all
\* quota objects in listing order, last write winning per key, and whose
\* has_storage_quota is true exactly when the merged hard_limits hold
\* "requests.storage" or "persistentvolumeclaims".
C18_QuotaMerge ==
    QuotaRead =>
        /\ IsNone(LastResult.value) <=> Tenant.quotas = <<>>
        /\ ~IsNone(LastResult.value) =>
              /\ MergedLastWins(Get(LastResult.value).hard_limits, Tenant.quotas, "hard_limits")
              /\ MergedLastWins(Get(LastResult.value).used, Tenant.quotas, "used")
              /\ Get(LastResult.value).has_storage_quota <=>
                    \/ "requests.storage" \in DOMAIN Get(LastResult.value).hard_limits
                    \/ "persistentvolumeclaims" \in DOMAIN Get(LastResult.value).hard_limits

\* a quota merged from two objects that disagree on the claim count
C18_Witness ==
    /\ QuotaRead
    /\ Len(Tenant.quotas) = 2
    /\ Holding(Tenant.quotas, "hard_limits", "persistentvolumeclaims") = {1, 2}
    /\ Tenant.quotas[1].hard_limits["persistentvolumeclaims"]
         # Tenant.quotas[2].hard_limits["persistentvolumeclaims"]
    /\ Get(LastResult.value).has_storage_quota

--------------------------------------------------------------------------
\* two outcomes of analyze_namespace that differ at most in the timestamp
SameButStamp(r, o) ==
    /\ r.raises = o.raises
    /\ r.raises => (r.type = o.type /\ r.error = o.error)
    /\ ~r.raises =>
          \A f \in DOMAIN r.value \ {"timestamp"} : r.value[f] = o.value[f]

\* no claim of the namespace is a day older at time t2 than at time t1
SameDays(k8s, t1, t2) ==
    \A n \in 1..Len(k8s.pvcs) :
        IsNone(k8s.pvcs[n].created) \/
            (Get(k8s.pvcs[n].created) + t1) \div SecondsPerDay
              = (Get(k8s.pvcs[n].created) + t2) \div SecondsPerDay

\* a step that is the second of two successive calls of analyze_namespace
SecondAnalysis == Analysed /\ Analysed' /\ call'.calls = call.calls + 1

\* the call left the cluster, the cache and the subscriptions as they were
NothingWritten == UNCHANGED <<cluster, cache, requests, active_connections, sockets>>

\* C19 as stated: the second of two calls of analyze_namespace on the same
\* namespace, the cluster unchanged, returns what the first returned but for
\* the timestamp, and the call changes neither the cluster nor the cache nor
\* any other state.
C19_IdempotentAsStated ==
    [][SecondAnalysis => (NothingWritten /\ SameButStamp(LastResult, LastResult'))]_vars

\* C19 amended: the call changes no state, and the second call returns what
\* the first returned but for the timestamp provided no claim's age in whole
\* days changes between the two calls; both calls raise or both return.
C19_IdempotentSameDay ==
    [][SecondAnalysis =>
         /\ NothingWritten
         /\ LastResult.raises = LastResult'.raises
         /\ (LastResult.raises \/ SameDays(Tenant, LastResult.value.timestamp, now'))
               => SameButStamp(LastResult, LastResult')]_vars

\* a second analysis was made later than the first, of a namespace whose stale
\* claim is mounted by none
C19_Witness ==
    /\ Analysed
    /\ call.calls = 2
    /\ ~LastResult.raises
    /\ LastResult.value.timestamp > 0
    /\ \E n \in 1..Len(LastResult.value.recommendations) :
          LastResult.value.recommendations[n].type = "old_unused_pvc"

--------------------------------------------------------------------------
\* get_namespace_summaries_async on a fleet of tenant namespaces, as the routes
\* call it: every tenant namespace, the default batch size

InitFleet ==
    /\ cluster = [list_fails |-> FALSE, ns |-> [k \in 1..MaxFleet |-> WithQuota]]
    /\ pc = "call"
    /\ namespaces = None
    /\ batch_size = DEFAULT_NAMESPACE_BATCH_SIZE
    /\ i = 0
    /\ tasks = <<>>
    /\ in_flight = {}
    /\ max_workers \in {ExecutorWorkers(cpus) : cpus \in CpuCounts}
    /\ summaries = <<>>
    /\ timed_out = {}
    /\ now = 0
    /\ OverviewIdle
    /\ GraphIdle
    /\ CacheIdle
    /\ WsIdle
    /\ StreamIdle
    /\ CallIdle

SpecFleet == InitFleet /\ [][Next]_vars

\* the requests to the Kubernetes API that are in flight: one per analysis
\* that runs in a thread of the executor
RequestsInFlight == Cardinality(RunningJobs(in_flight, max_workers))

\* C20: while the digests are fetched in batches, at most 10 requests to the
\* Kubernetes API are in flight.
C20_AtMostTenInFlight == RequestsInFlight <= 10


--------------------------------------------------------------------------
\* the top-N graphs

SortedKinds == {"storage_usage", "top_unused", "unused_capacity", "pvc_count"}

\* the digest field a kind sorts by
SortKeyOf(kind) ==
    IF kind = "storage_usage" THEN "total_capacity_gi"
    ELSE IF kind = "top_unused" THEN "unused_pvcs"
    ELSE IF kind = "unused_capacity" THEN "unused_capacity_gi"
    ELSE "total_pvcs"

\* a request for one of the sorted kinds was answered with a series
SeriesServed ==
    /\ graph.pc = "done"
    /\ graph.graph_type \in SortedKinds
    /\ Get(graph.response).status = 200

Series == Get(Get(graph.response).body)

\* the digests the request's namespaces have, and the error-free ones
RequestDigests ==
    get_namespace_summaries_async(cluster, graph.namespaces,
                                  DEFAULT_NAMESPACE_BATCH_SIZE, graph.timeouts).value

ErrorFreeOf(digests) == {p \in 1..Len(digests) : digests[p].error = None}

\* the key the n-th bar is plotted with: the stacked usage bars add up to the
\* total capacity, the other kinds plot the key itself
PlottedKeyOf(kind, series, n) ==
    IF kind = "storage_usage"
    THEN AddGi(series.datasets[1].data[n], series.datasets[2].data[n])
    ELSE series.datasets[1].data[n]

KeyBelowOf(kind, x, y) ==
    IF kind \in {"storage_usage", "unused_capacity"} THEN GiLess(x, y) ELSE x < y

Smaller(a, b) == IF a < b THEN a ELSE b

\* the bars are error-free digests plotted with their key
BarsAreDigests(kind, series, digests, errorFree) ==
    \A n \in 1..Len(series.labels) :
       \E p \in errorFree :
          /\ digests[p].namespace = series.labels[n]
          /\ digests[p][SortKeyOf(kind)] = PlottedKeyOf(kind, series, n)

Descending(kind, series) ==
    \A n, m \in 1..Len(series.labels) :
       n < m => ~KeyBelowOf(kind, PlottedKeyOf(kind, series, n), PlottedKeyOf(kind, series, m))

OmittedBelowIncluded(kind, series, digests, errorFree) ==
    \A p \in errorFree :
       (\A n \in 1..Len(series.labels) : series.labels[n] # digests[p].namespace)
          => \A n \in 1..Len(series.labels) :
                ~KeyBelowOf(kind, PlottedKeyOf(kind, series, n), digests[p][SortKeyOf(kind)])

TopN(kind, limit, series, digests, errorFree) ==
    /\ Len(series.labels) = Smaller(limit, Cardinality(errorFree))
    /\ BarsAreDigests(kind, series, digests, errorFree)
    /\ Descending(kind, series)
    /\ OmittedBelowIncluded(kind, series, digests, errorFree)

TopNOf(kind, limit, series, digests) ==
    TopN(kind, limit, series, digests, ErrorFreeOf(digests))

\* C21: with limit N >= 1 a sorted kind returns min(N, number of error-free
\* digests) entries, each an error-free digest with its key, in descending
\* order of the key, and no omitted namespace has a key above an included one.
C21_TopNByKey ==
    (SeriesServed /\ ~IsNone(graph.limit)) =>
        TopNOf(graph.graph_type, Get(graph.limit), Series, RequestDigests)

\* the largest of two error-free namespaces, listed last, is the one kept
TopOneOfTwo(kind, series, digests, errorFree) ==
    /\ Cardinality(errorFree) = 2
    /\ Len(digests) = 3
    /\ Len(series.labels) = 1
    /\ \E p \in errorFree : p > 1 /\ digests[p].namespace = series.labels[1]
    /\ \E p \in errorFree :
          KeyBelowOf(kind, digests[p][SortKeyOf(kind)], PlottedKeyOf(kind, series, 1))

\* a limit of one keeps the larger of two error-free namespaces, which the
\* request listed last
C21_Witness ==
    /\ SeriesServed
    /\ graph.limit = Some(1)
    /\ TopOneOfTwo(graph.graph_type, Series, RequestDigests, ErrorFreeOf(RequestDigests))

\* the namespaces a graph request covers, in the order they are fetched
RequestNamespaces == NamespacesOf(cluster, graph.namespaces).value

\* the positions of the request whose fetch neither timed out with its batch nor
\* failed: the analysis of the namespace returns
FetchedAt(c, listed, timeouts) ==
    {p \in 1..Len(listed) :
        /\ 0 \notin timeouts
        /\ ~analyze_namespace(listed[p], K8sOf(c, listed[p])).raises}

NamesAt(listed, positions) == {listed[p] : p \in positions}
LabelsOf(series) == {series.labels[n] : n \in 1..Len(series.labels)}

OnlyFetchedPlotted(limit, series, listed, fetched) ==
    /\ LabelsOf(series) \subseteq NamesAt(listed, fetched)
    /\ IsNone(limit) =>
          /\ LabelsOf(series) = NamesAt(listed, fetched)
          /\ Len(series.labels) = Cardinality(fetched)

\* C30: the labels of a sorted kind's series are namespaces whose fetch returned
\* a digest without error, all of them when no limit is given; a namespace whose
\* fetch failed or timed out is left out of the series.
C30_ErrorDigestsNotPlotted ==
    SeriesServed =>
        OnlyFetchedPlotted(graph.limit, Series, RequestNamespaces,
                           FetchedAt(cluster, RequestNamespaces, graph.timeouts))

SomeLeftOut(series, listed, fetched) ==
    /\ fetched # {}
    /\ fetched # 1..Len(listed)
    /\ Len(series.labels) = Cardinality(fetched)

\* an unlimited series over a cluster with a namespace that cannot be read
C30_Witness ==
    /\ SeriesServed
    /\ IsNone(graph.limit)
    /\ graph.timeouts = {}
    /\ SomeLeftOut(Series, RequestNamespaces,
                   FetchedAt(cluster, RequestNamespaces, graph.timeouts))

\* the age of a raw claim in whole days, an absent creation instant as 0
DaysOld(d, clock) ==
    IF IsNone(d.created) THEN 0 ELSE (Get(d.created) + clock) \div SecondsPerDay

\* the raw claims of a namespace that no listed workload names
Unmounted(k8s) ==
    {n \in 1..Len(k8s.pvcs) :
        \A m \in 1..Len(k8s.pods) :
           \A j \in 1..Len(k8s.pods[m].pvc_claims) :
              k8s.pods[m].pvc_claims[j] # k8s.pvcs[n].name}

\* the b-th bucket holds the ages of its range; bucket 0 stands for any age
InBucket(b, days) ==
    \/ b = 0
    \/ b = 1 /\ days \in 0..7
    \/ b = 2 /\ days \in 8..30
    \/ b = 3 /\ days \in 31..90
    \/ b = 4 /\ days \in 91..180
    \/ b = 5 /\ days > 180

ReadSucceeds(k8s) == k8s.fails \cap {"pvcs", "pods"} = {}

UnmountedIn(k8s, b) ==
    IF ReadSucceeds(k8s)
    THEN Cardinality({n \in Unmounted(k8s) : InBucket(b, DaysOld(k8s.pvcs[n], k8s.clock))})
    ELSE 0

RECURSIVE UnmountedAcross(_, _, _)
UnmountedAcross(c, listed, b) ==
    IF listed = <<>> THEN 0
    ELSE UnmountedIn(K8sOf(c, Head(listed)), b) + UnmountedAcross(c, Tail(listed), b)

AgeGraphAsked == graph.pc = "done" /\ graph.graph_type = "age_distribution"

BucketsCount(c, listed, response) ==
    /\ response.status = 200
    /\ Len(Get(response.body).labels) = 5
    /\ \A b \in 1..5 :
          Get(response.body).datasets[1].data[b] = UnmountedAcross(c, listed, b)
    /\ Get(response.body).datasets[1].data[1] + Get(response.body).datasets[1].data[2]
         + Get(response.body).datasets[1].data[3] + Get(response.body).datasets[1].data[4]
         + Get(response.body).datasets[1].data[5] = UnmountedAcross(c, listed, 0)

\* C24: the age_distribution graph is answered whenever the namespaces are known;
\* its five counts are the unused claims of the namespaces that can be read with
\* age 0-7, 8-30, 31-90, 91-180 and above 180 days (an absent age as 0), they add
\* up to the number of those claims, and an unreadable namespace adds nothing.
C24_AgeBuckets ==
    (AgeGraphAsked /\ ~NamespacesOf(cluster, graph.namespaces).raises) =>
        BucketsCount(cluster, RequestNamespaces, Get(graph.response))

EveryBucketFilled(c, listed, response) ==
    /\ response.status = 200
    /\ \A b \in 1..5 : Get(response.body).datasets[1].data[b] > 0
    /\ \E p \in 1..Len(listed) : ~ReadSucceeds(K8sOf(c, listed[p]))

\* claims at every bucket edge are counted next to a namespace that cannot be read
C24_Witness ==
    /\ AgeGraphAsked
    /\ ~NamespacesOf(cluster, graph.namespaces).raises
    /\ EveryBucketFilled(cluster, RequestNamespaces, Get(graph.response))

--------------------------------------------------------------------------
\* the batches of a digest run

Started(k) == tasks[k].state # "new"
Settled(k) == tasks[k].state \in {"done", "cancelled"} /\ k <= Len(summaries)

\* C22: the fetches run batch after batch, a batch being batch_size consecutive
\* namespaces: the fetches of a batch are started together, and a fetch is
\* started only when every fetch of the batches before has completed or was
\* cancelled by its batch's timeout and the batch's digests are recorded.
C22_OneBatchAtATime ==
    pc \in {"loop", "await", "done"} =>
        \A k, m \in DOMAIN tasks :
           /\ BatchOffset(k) = BatchOffset(m) => (Started(k) <=> Started(m))
           /\ (BatchOffset(m) < BatchOffset(k) /\ Started(k)) => Settled(m)

\* the second batch runs after a first batch of two, whose fetches had started
\* together, has completed
C22_Witness ==
    /\ pc = "await"
    /\ batch_size = 2
    /\ i = 2
    /\ Len(tasks) = 3
    /\ tasks[1].state = "done" /\ tasks[2].state = "done"
    /\ tasks[3].state = "running"

\* C25: the digests are recorded one per namespace in the order of the input:
\* after every batch the recorded digests are those of the namespaces before the
\* loop's offset, the k-th carrying the k-th namespace's name, and the returned
\* list is as long as the input, whichever fetches succeed, fail or time out.
C25_OneDigestPerNamespace ==
    pc \in {"loop", "await", "done"} =>
        /\ Len(summaries) = Smaller(i, Len(Get(namespaces)))
        /\ \A k \in 1..Len(summaries) : summaries[k].namespace = Get(namespaces)[k]
        /\ pc = "done" => DOMAIN summaries = DOMAIN Get(namespaces)

\* a returned list with a successful digest, a failed one and a timed-out batch
C25_Witness ==
    /\ pc = "done"
    /\ Len(summaries) = 3
    /\ timed_out # {}
    /\ \E k \in 1..Len(summaries) : summaries[k].error = None
    /\ \E k \in 1..Len(summaries) :
          BatchOffset(k) \notin timed_out /\ summaries[k].error # None

--------------------------------------------------------------------------
\* the overview against the digests

\* the digests of an unfiltered request none of whose batches times out
UnfilteredDigests(c) ==
    get_namespace_summaries_async(c, None, DEFAULT_NAMESPACE_BATCH_SIZE, {}).value

RECURSIVE SumDigests(_, _)
SumDigests(digests, field) ==
    IF digests = <<>> THEN 0
    ELSE (IF Head(digests).error = None THEN Head(digests)[field] ELSE 0)
         + SumDigests(Tail(digests), field)

RECURSIVE SumGiDigests(_, _)
SumGiDigests(digests, field) ==
    IF digests = <<>> THEN ZeroGi
    ELSE AddGi(IF Head(digests).error = None THEN Head(digests)[field] ELSE ZeroGi,
               SumGiDigests(Tail(digests), field))

UnderQuota(digests) ==
    Cardinality({k \in 1..Len(digests) : digests[k].error = None /\ digests[k].has_quota})

ViewsAgree(o, digests) ==
    /\ o.total_namespaces = Len(digests)
    /\ o.total_pvcs = SumDigests(digests, "total_pvcs")
    /\ o.total_unused_pvcs = SumDigests(digests, "unused_pvcs")
    /\ o.total_capacity_gi = SumGiDigests(digests, "total_capacity_gi")
    /\ o.unused_capacity_gi = SumGiDigests(digests, "unused_capacity_gi")
    /\ o.namespaces_with_quota = UnderQuota(digests)

\* C26: the returned overview agrees with the digests of an unfiltered request
\* on the same cluster with no batch timed out: its five totals are the sums
\* over the digests without error and total_namespaces is the number of digests.
C26_OverviewAgreesWithDigests ==
    ov_pc = "done" => ViewsAgree(Get(overview), UnfilteredDigests(cluster))

MixedDigests(o, digests) ==
    /\ \E k \in 1..Len(digests) : digests[k].error # None
    /\ \E k \in 1..Len(digests) : digests[k].error = None /\ digests[k].has_quota
    /\ \E k \in 1..Len(digests) : digests[k].error = None /\ ~digests[k].has_quota
    /\ o.total_pvcs > 0
    /\ o.namespaces_with_quota > 0

\* an overview of a cluster with an unreadable namespace, one under quota and
\* one without quota
C26_Witness ==
    /\ ov_pc = "done"
    /\ MixedDigests(Get(overview), UnfilteredDigests(cluster))

--------------------------------------------------------------------------
\* the summary of an analysis

RECURSIVE SumCounts(_, _)
SumCounts(counts, keys) ==
    IF keys = {} THEN 0
    ELSE LET sc == CHOOSE x \in keys : TRUE
         IN counts[sc] + SumCounts(counts, keys \ {sc})

\* the claims of the raw listing without a storage class
Unclassed(k8s) == {n \in 1..Len(k8s.pvcs) : IsNone(k8s.pvcs[n].storage_class)}

WarningsOf(recommendations) ==
    {n \in 1..Len(recommendations) : recommendations[n].type = "unused_pvc"}

SummaryConsistent(analysis, k8s) ==
    /\ analysis.summary.total_pvcs = Len(analysis.pvcs)
    /\ analysis.summary.total_pvcs = Len(k8s.pvcs)
    /\ analysis.summary.unused_pvcs <= analysis.summary.total_pvcs
    /\ analysis.summary.bound_pvcs + analysis.summary.pending_pvcs
          <= analysis.summary.total_pvcs
    /\ SumCounts(analysis.summary.storage_classes, DOMAIN analysis.summary.storage_classes)
          = analysis.summary.total_pvcs
    /\ Unclassed(k8s) # {} =>
          /\ "default" \in DOMAIN analysis.summary.storage_classes
          /\ analysis.summary.storage_classes["default"] = Cardinality(Unclassed(k8s))
    /\ analysis.summary.has_quota <=> (Len(k8s.quotas) > 0)
    /\ analysis.summary.has_quota <=> ~IsNone(analysis.summary.quota)
    /\ Cardinality(WarningsOf(analysis.recommendations)) = analysis.summary.unused_pvcs

\* C27: the summary of every returned analysis counts the enriched claims in
\* total_pvcs, has unused_pvcs and bound_pvcs + pending_pvcs at most total_pvcs,
\* per-class counts (no class under "default") that add up to total_pvcs,
\* has_quota exactly when the namespace has a quota object, and as many
\* unused_pvc recommendations as unused_pvcs.
C27_SummaryInvariants ==
    (Analysed /\ ~LastResult.raises) => SummaryConsistent(LastResult.value, Tenant)

\* a namespace with a lost claim, two claims without class, unused claims and a
\* quota object that constrains no storage
C27_Witness ==
    /\ Analysed
    /\ ~LastResult.raises
    /\ LastResult.value.summary.bound_pvcs + LastResult.value.summary.pending_pvcs
          < LastResult.value.summary.total_pvcs
    /\ LastResult.value.summary.has_quota
    /\ ~Get(LastResult.value.summary.quota).has_storage_quota
    /\ LastResult.value.summary.storage_classes["default"] = 2
    /\ LastResult.value.summary.unused_pvcs = 3

--------------------------------------------------------------------------
\* the engine on malformed capacities

Recommended == call.method = "generate_recommendations"

\* the unused claims handed to the engine whose capacity the parser rejects
Rejected(pvcs_with_pods) ==
    {n \in 1..Len(pvcs_with_pods) :
        /\ pvcs_with_pods[n].is_unused
        /\ parse_capacity_to_gi(pvcs_with_pods[n].pvc.capacity).raises}

\* the unused_pvc recommendations that name the claim
WarningsFor(recommendations, name) ==
    {m \in 1..Len(recommendations) :
        recommendations[m].type = "unused_pvc" /\ recommendations[m].pvc_name = Some(name)}

WarnedWith(recommendations, pvc_wp) ==
    /\ WarningsFor(recommendations, pvc_wp.pvc.name) # {}
    /\ \A m \in WarningsFor(recommendations, pvc_wp.pvc.name) :
          recommendations[m].capacity_gi =
             (IF parse_capacity_to_gi(pvc_wp.pvc.capacity).raises THEN None
              ELSE Some(parse_capacity_to_gi(pvc_wp.pvc.capacity).value))

EngineTolerates(pvcs_with_pods, result) ==
    /\ ~result.raises
    /\ \A n \in 1..Len(pvcs_with_pods) :
          pvcs_with_pods[n].is_unused => WarnedWith(result.value, pvcs_with_pods[n])
    /\ \A n \in Rejected(pvcs_with_pods) :
          \A m \in WarningsFor(result.value, pvcs_with_pods[n].pvc.name) :
             /\ result.value[m].capacity_gi = None
             /\ result.value[m].capacity_gi # Some(ZeroGi)

\* C23: generate_recommendations returns a list for every list of enriched
\* claims, whatever their capacity strings; every unused claim has its
\* unused_pvc recommendation, with capacity_gi None (not 0) when the parser
\* rejects the capacity and the parsed GiB otherwise.
C23_EngineToleratesMalformed ==
    Recommended => EngineTolerates(Get(call.arg).pvcs_with_pods, LastResult)

\* an unused claim with capacity "5G" is recommended for cleanup next to one
\* whose capacity parses
C23_Witness ==
    /\ Recommended
    /\ Rejected(Get(call.arg).pvcs_with_pods) # {}
    /\ \E m \in 1..Len(LastResult.value) :
          LastResult.value[m].type = "unused_pvc" /\ LastResult.value[m].capacity_gi = None
    /\ \E m \in 1..Len(LastResult.value) :
          LastResult.value[m].type = "unused_pvc" /\ LastResult.value[m].capacity_gi # None

--------------------------------------------------------------------------
\* what reaches the cache

HasErrorDigest(digests) == \E k \in 1..Len(digests) : digests[k].error # None

\* a step of a request that has not returned, or that answers 500, leaves both
\* entries as they are; an unfiltered digest request whose computation returns
\* puts the whole returned list under "summaries" and touches nothing else
WrittenOnReturn ==
    \A r \in DOMAIN requests' :
        Touched(r) =>
            /\ (requests'[r].pc # "done" \/ Get(requests'[r].response).status # 200)
                  => cache' = cache
            /\ (/\ Returns(r)
                /\ requests'[r].route = "summaries"
                /\ Unfiltered(requests'[r])
                /\ ~requests'[r].hit
                /\ Get(requests'[r].response).status = 200)
                  => cache' = [cache EXCEPT !["summaries"] =
                                  [data      |-> Get(requests'[r].response).body,
                                   timestamp |-> Some(now)]]

\* a stored list with an error digest is what an unfiltered digest request
\* answers while the entry is less than 30 seconds old
ErrorsServed ==
    \A r \in DOMAIN requests :
        (/\ requests[r].route = "summaries"
         /\ Unfiltered(requests[r])
         /\ Fresh(requests[r].seen, requests[r].arrived)
         /\ HasErrorDigest(Get(requests[r].seen.data))) =>
            /\ requests[r].hit
            /\ requests[r].response = Some(Ok(Get(requests[r].seen.data)))

\* C28: the cache is written only when a computation has returned: a request
\* that answers 500 or is still awaiting leaves both entries unchanged, a
\* returned digest list is stored whole, error and timeout digests included,
\* and those are served to unfiltered requests while the entry is younger than
\* 30 seconds.
C28_WrittenAfterReturn ==
    /\ [][WrittenOnReturn]_vars
    /\ []ErrorsServed

\* the digests of a timed-out batch were stored and answer the next request
C28_Witness ==
    \E r1, r2 \in DOMAIN requests :
        /\ r1 < r2
        /\ FoundEntryOf(r1, r2)
        /\ requests[r1].timeouts # {}
        /\ HasErrorDigest(Get(Get(requests[r1].response).body))
        /\ requests[r2].hit
        /\ requests[r2].response = requests[r1].response

--------------------------------------------------------------------------
\* the table of active connections

\* the connections listed under a namespace, none when the key is absent
ListedUnder(conns, namespace) ==
    IF namespace \in DOMAIN conns THEN conns[namespace] ELSE <<>>

\* the list without the connection
RECURSIVE Others(_, _)
Others(list, websocket) ==
    IF list = <<>> THEN <<>>
    ELSE IF Head(list) = websocket THEN Others(Tail(list), websocket)
    ELSE <<Head(list)>> \o Others(Tail(list), websocket)

\* the subscribers of the namespace that are inside their loop
LoopsOf(namespace) ==
    {s \in DOMAIN sockets : sockets[s].namespace = namespace /\ Running(s)}

\* every key holds a non-empty list, and the list of a namespace holds each of
\* its running subscribers once and nothing else
TableConsistent ==
    /\ DOMAIN active_connections \subseteq WsNamespaces
    /\ \A namespace \in DOMAIN active_connections : active_connections[namespace] # <<>>
    /\ \A namespace \in WsNamespaces :
          /\ {ListedUnder(active_connections, namespace)[n] :
                 n \in 1..Len(ListedUnder(active_connections, namespace))} = LoopsOf(namespace)
          /\ Len(ListedUnder(active_connections, namespace)) = Cardinality(LoopsOf(namespace))

\* the step that ends the loop of s takes s, and only s, out of the table; the
\* step that starts it appends s to its namespace's list
OneAtATime ==
    \A s \in DOMAIN sockets :
        /\ (Running(s) /\ ~Running(s)') =>
              \A namespace \in WsNamespaces :
                 ListedUnder(active_connections', namespace) =
                    Others(ListedUnder(active_connections, namespace), s)
        /\ (~Running(s) /\ Running(s)') =>
              \A namespace \in WsNamespaces :
                 ListedUnder(active_connections', namespace) =
                    IF namespace = sockets[s].namespace
                    THEN Append(ListedUnder(active_connections, namespace), s)
                    ELSE ListedUnder(active_connections, namespace)

\* C29: under every interleaving of subscribers the table lists, under each
\* namespace, exactly the connections whose loop runs, each once, and has no key
\* with an empty list; a loop that ends, by a refused send or by an exception,
\* takes its own connection out and no other.
C29_ConnectionsConsistent ==
    /\ []TableConsistent
    /\ [][OneAtATime]_vars

\* the loop of the only subscriber of one namespace ended with an exception and
\* its key is gone, while the subscriber of the other namespace is still listed
C29_Witness ==
    \E s, u \in DOMAIN sockets :
        /\ sockets[s].namespace # sockets[u].namespace
        /\ sockets[s].pc = "failed"
        /\ sockets[s].namespace \notin DOMAIN active_connections
        /\ Running(u)
        /\ active_connections[sockets[u].namespace] = <<u>>

=============================================================================
